---- MODULE Spec2Model ----
(***************************************************************************)
(* Order reconciliation, cache, confirmation workflow and risk gate of the *)
(* gallump trading backend, modelled from the Python sources.              *)
(*                                                                         *)
(* Money is counted in cents, so that the literal 1 (one dollar) of        *)
(* risk.py line 28 and the limit 0.10 stay exact in integer arithmetic.    *)
(* Python None is the value None; the truthiness tests of the code are the *)
(* operator Truthy.  Timestamps that no handler reads back (submitted_at,  *)
(* last_updated) are left out of the order rows; the capture timestamp of  *)
(* the cache, which decides the TTL, is kept.                              *)
(***************************************************************************)
EXTENDS Integers, Sequences, FiniteSets, TLC

VARIABLES
    trades,     \* gateway session: ib.trades(), indexed by orderId
    store,      \* pending_orders table: order_id -> row
    cache,      \* Cache.memory_cache['pending_orders']
    now,        \* wall clock in seconds
    passSnap,   \* live-order snapshot of the latest Reconcile pass
    strategyStatus, \* strategies table: status of the stored strategy
    tradeTable, \* trades table: rows written by save_trade
    last,       \* outcome of the handler that ran last
    riskIn,     \* (trade, portfolio) handed to RiskManager.evaluate
    riskOut,    \* <<RiskResult>> once evaluate has returned
    safeOut,    \* <<quantity>> once calculate_safe_size has returned
    pool,       \* ConnectionPool: connections, available, in_use, _initialized
    conn,       \* link of every ConnectionManager created so far
    caller,     \* tasks using the pool: where each one is, what it holds
    env,        \* how often the environment has dropped a link, closed the pool
    mgr,        \* ConnectionManager: ib, client_id, reconnect_attempts
    task,       \* tasks running connect() / _reconnect(): where each one is
    onerr,      \* what _on_error did, when the step just taken was _on_error
    brk,        \* Broker: its fields and where connect() is
    bracket,    \* place_bracket_order: where it is, and what was reported since
    statusOf,   \* a BracketOrder and what get_status has returned for it
    bcache,     \* Cache.memory_cache['bracket_orders']
    health,     \* Broker request counters, and the calls made so far
    passes,     \* Reconcile passes running side by side on one store
    sess        \* one conversation session in the cache, and what was added to it

vars == <<trades, store, cache, now, passSnap, strategyStatus, tradeTable, last,
          riskIn, riskOut, safeOut, pool, conn, caller, env, mgr, task, onerr, brk,
          bracket, statusOf, bcache, health, passes, sess>>
orderVars == <<trades, store, cache, now, passSnap, strategyStatus, tradeTable, last>>
workflowVars == <<strategyStatus, tradeTable>>
riskVars == <<riskIn, riskOut, safeOut>>
poolVars == <<pool, conn, caller, env>>
managerVars == <<mgr, task, onerr>>
brokerVars == <<brk>>
linkVars == <<poolVars, managerVars, brokerVars>>
bracketVars == <<bracket, statusOf>>
laterVars == <<bcache, health, passes>>
sessVars == <<sess>>
restVars == <<bracketVars, laterVars, sessVars>>

---------------------------------------------------------------------------
\* Bounds of the model

MaxOrders == 1
OrderQty == 2
MaxTime == 30
TickStep == 30

---------------------------------------------------------------------------
\* Values

None == -1

Truthy(x) == x # None /\ x # 0

OrderIds == 1..MaxOrders

IBKR_ORDER_STATUSES ==
    {"PendingSubmit", "PendingCancel", "PreSubmitted", "Submitted",
     "Cancelled", "Filled", "Inactive", "PartiallyFilled", "ApiCancelled"}

\* statuses after which the client library drops a trade from openTrades()
DoneStates == {"Filled", "Cancelled"}

PENDING_ORDERS_TTL == 30

RECURSIVE SortedSeq(_)
SortedSeq(S) ==
    IF S = {} THEN <<>>
    ELSE LET m == CHOOSE x \in S : \A y \in S : x <= y
         IN <<m>> \o SortedSeq(S \ {m})

Range(s) == {s[k] : k \in DOMAIN s}

---------------------------------------------------------------------------
\* The gateway (ib_insync session) as the broker sees it

FillPrice == 5000

NewTrade(orderType, qty, lmt, aux, trailAmt, trailPct) ==
    [orderType |-> orderType, totalQuantity |-> qty,
     lmtPrice |-> lmt, auxPrice |-> aux,
     trailStopPrice |-> trailAmt, trailingPercent |-> trailPct,
     parentId |-> 0, ocaGroup |-> 0,
     status |-> "PendingSubmit", filled |-> 0, avgFillPrice |-> 0]

\* the order state machine the gateway follows
GatewayNext(t) ==
    CASE t.status = "PendingSubmit"   -> {"PreSubmitted", "Submitted", "Inactive"}
      [] t.status = "PreSubmitted"    -> {"Submitted", "Cancelled"}
      [] t.status = "Submitted"       -> {"PartiallyFilled", "Filled", "Cancelled"}
      [] t.status = "PartiallyFilled" -> {"Submitted", "Filled"}
      [] t.status = "PendingCancel"   -> {"Cancelled", "Filled"}
      [] OTHER                        -> {}

GatewayFilled(t, s) ==
    CASE s = "Filled"          -> {t.totalQuantity}
      [] s = "PartiallyFilled" -> {f \in 1..(t.totalQuantity - 1) : f > t.filled}
      [] OTHER                 -> {t.filled}

\* ib.openTrades(): the trades that are not done, in order of their ids
openTrades(tr) == SortedSeq({i \in DOMAIN tr : tr[i].status \notin DoneStates})

\* ib.cancelOrder(order): a working order becomes PendingCancel, a finished
\* one is left as it is
cancelOrder(tr, i) ==
    IF tr[i].status \in DoneStates \cup {"Inactive"} THEN tr
    ELSE [tr EXCEPT ![i].status = "PendingCancel"]

---------------------------------------------------------------------------
\* core/types.py PendingOrder

PendingOrder(order_id, quantity, order_type, limit_price, stop_price, trail_amount, trail_percent, status, filled_quantity, remaining_quantity, avg_fill_price, parent_id, oca_group, strategy_id) ==
    [order_id |-> order_id, quantity |-> quantity, order_type |-> order_type,
     limit_price |-> limit_price, stop_price |-> stop_price,
     trail_amount |-> trail_amount, trail_percent |-> trail_percent,
     status |-> status, filled_quantity |-> filled_quantity,
     remaining_quantity |-> remaining_quantity,
     avg_fill_price |-> avg_fill_price,
     parent_id |-> parent_id, oca_group |-> oca_group,
     strategy_id |-> strategy_id]

to_dict(o) ==
    [order_id |-> o.order_id, quantity |-> o.quantity,
     order_type |-> o.order_type,
     limit_price |-> o.limit_price, stop_price |-> o.stop_price,
     trail_amount |-> o.trail_amount, trail_percent |-> o.trail_percent,
     status |-> o.status, filled_quantity |-> o.filled_quantity,
     remaining_quantity |-> o.remaining_quantity,
     avg_fill_price |-> o.avg_fill_price,
     parent_id |-> o.parent_id, oca_group |-> o.oca_group,
     strategy_id |-> o.strategy_id]

is_working_order(o) == o.status \in {"PendingSubmit", "PreSubmitted", "Submitted"}

---------------------------------------------------------------------------
\* core/broker.py

\* one element of the list get_enhanced_open_orders builds
EnhancedOrder(i, t) ==
    LET remaining_qty == t.totalQuantity - t.filled
    IN PendingOrder(i, t.totalQuantity, t.orderType,
                    t.lmtPrice, t.auxPrice, t.trailStopPrice, t.trailingPercent,
                    t.status,
                    IF Truthy(t.filled) THEN t.filled ELSE 0,
                    IF Truthy(remaining_qty) THEN remaining_qty ELSE 0,
                    IF Truthy(t.avgFillPrice) /\ t.avgFillPrice > 0
                        THEN t.avgFillPrice ELSE None,
                    IF Truthy(t.parentId) THEN t.parentId ELSE None,
                    IF Truthy(t.ocaGroup) THEN t.ocaGroup ELSE None,
                    None)

get_enhanced_open_orders(tr, up) ==
    IF ~up THEN <<>>
    ELSE LET ids == openTrades(tr)
         IN [k \in 1..Len(ids) |-> EnhancedOrder(ids[k], tr[ids[k]])]

\* Broker.place_order: the trades after the call and the id it returns
place_order(tr, up, quantity, order_type, limit_price) ==
    IF ~up THEN [trades |-> tr, order_id |-> None]
    ELSE LET order == IF order_type = "LMT" /\ Truthy(limit_price)
                      THEN NewTrade("LMT", quantity, limit_price, None, None, None)
                      ELSE NewTrade("MKT", quantity, None, None, None, None)
         IN [trades |-> Append(tr, order), order_id |-> Len(tr) + 1]

\* Broker.place_trailing_stop_order: order_id is None when it raises
place_trailing_stop_order(tr, up, quantity, trail_amount, trail_percent) ==
    IF ~up THEN [trades |-> tr, order_id |-> None]
    ELSE IF ~Truthy(trail_amount) /\ ~Truthy(trail_percent)
         THEN [trades |-> tr, order_id |-> None]
    ELSE LET order == NewTrade("TRAIL", quantity, None, None,
                               IF Truthy(trail_amount) THEN trail_amount ELSE None,
                               IF Truthy(trail_percent) THEN trail_percent ELSE None)
         IN [trades |-> Append(tr, order), order_id |-> Len(tr) + 1]

\* Broker.cancel_order: searches ib.trades(), finished trades included
cancel_order(tr, up, order_id) ==
    IF ~up THEN [trades |-> tr, success |-> FALSE]
    ELSE IF order_id \in DOMAIN tr
         THEN [trades |-> cancelOrder(tr, order_id), success |-> TRUE]
         ELSE [trades |-> tr, success |-> FALSE]

---------------------------------------------------------------------------
\* core/storage.py, table pending_orders

SyncOpenStatuses == {"PendingSubmit", "PreSubmitted", "Submitted", "PendingCancel"}

Upsert_InsertOrIgnore(st, o) ==
    [i \in DOMAIN st \cup {o.order_id} |-> IF i \in DOMAIN st THEN st[i] ELSE o]

\* INSERT OR REPLACE of one order, keyed by order_id
Upsert(st, o) ==
    [i \in DOMAIN st \cup {o.order_id} |-> IF i = o.order_id THEN o ELSE st[i]]

RECURSIVE UpsertAll(_, _)
UpsertAll(st, live) ==
    IF live = <<>> THEN st ELSE UpsertAll(Upsert(st, Head(live)), Tail(live))

\* the UPDATE ... SET status = 'Filled' loop over the vanished orders
MarkMissingFilled(st, live) ==
    LET db_order_ids == {i \in DOMAIN st : st[i].status \in SyncOpenStatuses}
        live_order_ids == {live[k].order_id : k \in DOMAIN live}
        missing_ids == db_order_ids \ live_order_ids
    IN [i \in DOMAIN st |->
          IF i \in missing_ids /\ st[i].status \notin {"Filled", "Cancelled"}
          THEN [st[i] EXCEPT !.status = "Filled"]
          ELSE st[i]]

sync_pending_orders(st, live) == UpsertAll(MarkMissingFilled(st, live), live)

update_order_status(st, order_id, status, filled_quantity, avg_fill_price) ==
    IF order_id \notin DOMAIN st THEN st
    ELSE IF filled_quantity # None /\ avg_fill_price # None
         THEN [st EXCEPT ![order_id].status = status,
                         ![order_id].filled_quantity = filled_quantity,
                         ![order_id].avg_fill_price = avg_fill_price]
         ELSE [st EXCEPT ![order_id].status = status]

\* Broker.sync_order_statuses: the store after the loop over the stored rows
sync_order_statuses(st, live) ==
    [i \in DOMAIN st |->
       LET db_order == st[i]
           hits == {k \in DOMAIN live : live[k].order_id = i}
       IN IF hits # {}
          THEN LET o == live[CHOOSE k \in hits : TRUE]
               IN IF o.status # db_order.status
                     \/ o.filled_quantity # db_order.filled_quantity
                  THEN update_order_status(st, i, o.status, o.filled_quantity,
                                           o.avg_fill_price)[i]
                  ELSE db_order
          ELSE IF is_working_order(db_order)
               THEN update_order_status(st, i, "Filled", None, None)[i]
               ELSE db_order]

---------------------------------------------------------------------------
\* core/cache.py, the pending-orders entry

NoCache == [orders |-> <<>>, timestamp |-> None]

cache_pending_orders_Append(orders, t) ==
    [orders |-> cache.orders \o [k \in DOMAIN orders |-> to_dict(orders[k])],
     timestamp |-> t]

cache_pending_orders(orders, t) ==
    [orders |-> [k \in DOMAIN orders |-> to_dict(orders[k])], timestamp |-> t]

from_dict(d) ==
    PendingOrder(d.order_id, d.quantity, d.order_type, d.limit_price,
                 d.stop_price, d.trail_amount, d.trail_percent, d.status,
                 d.filled_quantity, d.remaining_quantity, d.avg_fill_price,
                 d.parent_id, d.oca_group, d.strategy_id)

get_cached_pending_orders(c, t) ==
    IF c # NoCache /\ t - c.timestamp < PENDING_ORDERS_TTL
    THEN [k \in DOMAIN c.orders |-> from_dict(c.orders[k])]
    ELSE <<>>

invalidate_pending_orders == NoCache

---------------------------------------------------------------------------
\* core/risk.py, RiskManager with its DEFAULTS.  Percentages are whole
\* percents, money is in cents.

max_position_pct == 10
max_positions == 10
option_stop_pct == 30
stock_stop_pct == 15

\* the 1 of "portfolio.total_value or 1", in cents
OneDollar == 100

\* "{x:.1%}": the fraction num/den in tenths of a percent, rounded to nearest
FormatPct(num, den) ==
    LET n == 1000 * num
        q == n \div den
        r == n % den
    IN IF 2 * r > den \/ (2 * r = den /\ q % 2 = 1) THEN q + 1 ELSE q

Trade(asset_type, price, quantity) ==
    [asset_type |-> asset_type, price |-> price, quantity |-> quantity]

\* only the number of positions is read by the risk gate
Portfolio(total_value, positions) ==
    [total_value |-> total_value, positions |-> positions]

SizeWarning(position_value, denom) ==
    [text |-> "Position too large",
     value |-> FormatPct(position_value, denom),
     limit |-> FormatPct(max_position_pct, 100)]

CountWarning(n) ==
    [text |-> "Too many concurrent positions", value |-> n, limit |-> max_positions]

\* position_value / denom > max_position_pct, denom being of either sign
ExceedsPct(position_value, denom) ==
    IF denom > 0 THEN 100 * position_value > max_position_pct * denom
    ELSE 100 * position_value < max_position_pct * denom

evaluate_ShortCircuit(trade, portfolio) ==
    LET position_value == trade.quantity * trade.price
        denom == IF portfolio.total_value # 0 THEN portfolio.total_value
                 ELSE OneDollar
        tooLarge == ExceedsPct(position_value, denom)
        tooMany == ~tooLarge /\ portfolio.positions >= max_positions
        warnings == (IF tooLarge THEN <<SizeWarning(position_value, denom)>> ELSE <<>>)
                    \o (IF tooMany THEN <<CountWarning(portfolio.positions)>> ELSE <<>>)
        stop_loss == IF trade.asset_type = "OPTION"
                     THEN trade.price * (100 - option_stop_pct)
                     ELSE trade.price * (100 - stock_stop_pct)
        max_loss == (100 * trade.price - stop_loss) * trade.quantity
    IN [approved |-> ~tooLarge /\ ~tooMany,
        position_size |-> trade.quantity,
        stop_loss |-> stop_loss,
        max_loss |-> max_loss,
        warnings |-> warnings]

\* RiskManager.evaluate; stop_loss and max_loss are in hundredths of a cent
evaluate(trade, portfolio) ==
    LET position_value == trade.quantity * trade.price
        denom == IF portfolio.total_value # 0 THEN portfolio.total_value
                 ELSE OneDollar
        tooLarge == ExceedsPct(position_value, denom)
        tooMany == portfolio.positions >= max_positions
        warnings == (IF tooLarge THEN <<SizeWarning(position_value, denom)>> ELSE <<>>)
                    \o (IF tooMany THEN <<CountWarning(portfolio.positions)>> ELSE <<>>)
        stop_loss == IF trade.asset_type = "OPTION"
                     THEN trade.price * (100 - option_stop_pct)
                     ELSE trade.price * (100 - stock_stop_pct)
        max_loss == (100 * trade.price - stop_loss) * trade.quantity
    IN [approved |-> ~tooLarge /\ ~tooMany,
        position_size |-> trade.quantity,
        stop_loss |-> stop_loss,
        max_loss |-> max_loss,
        warnings |-> warnings]

\* int(): truncation towards zero of num / den, den > 0
IntDiv(num, den) == IF num >= 0 THEN num \div den ELSE -((-num) \div den)

calculate_safe_size_RoundUp(trade, portfolio) ==
    LET price == IF trade.price # 0 THEN trade.price ELSE OneDollar
        max_shares == IntDiv(max_position_pct * portfolio.total_value, 100 * price) + 1
    IN IF trade.quantity <= max_shares THEN trade.quantity ELSE max_shares

\* RiskManager.calculate_safe_size: max_position / price, in cents over cents
calculate_safe_size(trade, portfolio) ==
    LET price == IF trade.price # 0 THEN trade.price ELSE OneDollar
        max_shares == IntDiv(max_position_pct * portfolio.total_value, 100 * price)
    IN IF trade.quantity <= max_shares THEN trade.quantity ELSE max_shares

---------------------------------------------------------------------------
\* core/validators.py, validate_order for stock orders

RawOrder(order_type, quantity, limit_price, stop_price, trail_amount, trail_percent) ==
    [order_type |-> order_type, quantity |-> quantity,
     limit_price |-> limit_price, stop_price |-> stop_price,
     trail_amount |-> trail_amount, trail_percent |-> trail_percent]

order_type_map(t) ==
    CASE t = "MARKET"        -> "MKT"
      [] t = "LIMIT"         -> "LMT"
      [] t = "STOP"          -> "STP"
      [] t = "STOP_LIMIT"    -> "STP LMT"
      [] t = "TRAILING_STOP" -> "TRAIL"
      [] OTHER               -> t

validate_order_NoStopCheck(order) ==
    LET ot == order_type_map(order.order_type)
        has_percent == order.trail_percent # None
        has_amount == order.trail_amount # None
        ok == /\ order.quantity # None /\ order.quantity > 0
              /\ ot \in {"MKT", "LMT", "STP", "STP LMT", "TRAIL"}
              /\ ot \in {"LMT", "STP LMT"} =>
                    order.limit_price # None /\ order.limit_price > 0
              /\ ot = "TRAIL" =>
                    /\ has_percent \/ has_amount
                    /\ has_percent =>
                          order.trail_percent > 0 /\ order.trail_percent <= 100
                    /\ has_amount => order.trail_amount > 0
    IN [ok |-> ok,
        order |-> RawOrder(ot, order.quantity,
                     IF ot \in {"LMT", "STP LMT"} THEN order.limit_price ELSE None,
                     IF ot \in {"STP", "STP LMT"} THEN order.stop_price ELSE None,
                     IF ot = "TRAIL" THEN order.trail_amount ELSE None,
                     IF ot = "TRAIL" THEN order.trail_percent ELSE None)]

\* ok is FALSE where the code raises ValueError; order is the normalized
\* dict, a key the code does not copy being None
validate_order(order) ==
    LET ot == order_type_map(order.order_type)
        has_percent == order.trail_percent # None
        has_amount == order.trail_amount # None
        ok == /\ order.quantity # None /\ order.quantity > 0
              /\ ot \in {"MKT", "LMT", "STP", "STP LMT", "TRAIL"}
              /\ ot \in {"LMT", "STP LMT"} =>
                    order.limit_price # None /\ order.limit_price > 0
              /\ ot \in {"STP", "STP LMT"} =>
                    order.stop_price # None /\ order.stop_price > 0
              /\ ot = "TRAIL" =>
                    /\ has_percent \/ has_amount
                    /\ has_percent =>
                          order.trail_percent > 0 /\ order.trail_percent <= 100
                    /\ has_amount => order.trail_amount > 0
    IN [ok |-> ok,
        order |-> RawOrder(ot, order.quantity,
                     IF ot \in {"LMT", "STP LMT"} THEN order.limit_price ELSE None,
                     IF ot \in {"STP", "STP LMT"} THEN order.stop_price ELSE None,
                     IF ot = "TRAIL" THEN order.trail_amount ELSE None,
                     IF ot = "TRAIL" THEN order.trail_percent ELSE None)]

\* Broker.validate_ibkr_order_type; order_params is the set of keys present
validate_ibkr_order_type(order_type, order_params) ==
    CASE order_type = "TRAIL" ->
            "trail_amount" \in order_params \/ "trail_percent" \in order_params
      [] order_type = "STP LMT" ->
            {"limit_price", "stop_price"} \subseteq order_params
      [] order_type \in {"PEGMKT", "PEGMID"} -> "offset_amount" \in order_params
      [] order_type \in {"MIT", "LIT"} -> "stop_price" \in order_params
      [] OTHER -> TRUE

---------------------------------------------------------------------------
\* gallump_next/core/connection_pool.py, ConnectionPool.  A step runs from
\* one point where the coroutine really suspends to the next: the wait on
\* the queue and conn.connect().  A put on the unbounded queue and
\* disconnect() do not suspend.

max_connections == 3

NumCallers == 2
MaxConnIds == 7
MaxDrops == 1
MaxCloses == 1

Callers == 1..NumCallers
ConnIds == 1..MaxConnIds

Remove_Nothing(list, x) == list

\* list.remove(x), for a list without duplicates
Remove(list, x) == SelectSeq(list, LAMBDA y : y # x)

is_connected_Always(links, k) == TRUE

\* ConnectionManager.is_connected
is_connected(links, k) == links[k] = "up"

Created(links) == {k \in ConnIds : links[k] # "none"}

\* the ConnectionManager objects constructed next
Fresh(links, n) == (Cardinality(Created(links)) + 1)..(Cardinality(Created(links)) + n)

EmptyPool == [connections |-> <<>>, available |-> <<>>, in_use |-> <<>>, initialized |-> FALSE]

Idle == [pc |-> "idle", conn |-> 0]

InitPool ==
    /\ pool = EmptyPool
    /\ conn = [k \in ConnIds |-> "none"]
    /\ caller = [c \in Callers |-> Idle]
    /\ env = [drops |-> 0, closes |-> 0]

\* ConnectionPool.initialize with n of the max_connections connects succeeding
initialize(pl, n) ==
    LET new == SortedSeq(Fresh(conn, n))
    IN [pl EXCEPT !.connections = pl.connections \o new,
                  !.available = pl.available \o new,
                  !.initialized = TRUE]

available_get_Peek(pl) ==
    [conn |-> Head(pl.available), pool |-> pl]

\* self.available.get() once the queue holds a connection
available_get(pl) ==
    [conn |-> Head(pl.available),
     pool |-> [pl EXCEPT !.available = Tail(pl.available)]]

\* get_connection up to its wait on the queue; n connects succeed when the
\* pool has to be initialized first, none raising ConnectionError
EnterGet(c, n) ==
    IF pool.initialized
    THEN /\ n = 0
         /\ caller' = [caller EXCEPT ![c] = [pc |-> "waiting", conn |-> 0]]
         /\ UNCHANGED <<pool, conn>>
    ELSE /\ Cardinality(Created(conn)) + n <= MaxConnIds
         /\ IF n = 0
            THEN /\ caller' = [caller EXCEPT ![c] = [pc |-> "error", conn |-> 0]]
                 /\ UNCHANGED <<pool, conn>>
            ELSE /\ pool' = initialize(pool, n)
                 /\ conn' = [k \in ConnIds |->
                               IF k \in Fresh(conn, n) THEN "up" ELSE conn[k]]
                 /\ caller' = [caller EXCEPT ![c] = [pc |-> "waiting", conn |-> 0]]

GetConnection(c) ==
    /\ caller[c].pc \in {"idle", "timeout", "error"}
    /\ \E n \in 0..max_connections : EnterGet(c, n)
    /\ UNCHANGED env

\* the wait on the queue ends with a connection
Acquire(c) ==
    /\ caller[c].pc = "waiting"
    /\ pool.available # <<>>
    /\ LET got == available_get(pool)
       IN IF is_connected(conn, got.conn)
          THEN /\ pool' = [got.pool EXCEPT !.in_use = Append(got.pool.in_use, got.conn)]
               /\ caller' = [caller EXCEPT ![c] = [pc |-> "holding", conn |-> got.conn]]
          ELSE /\ pool' = got.pool
               /\ caller' = [caller EXCEPT ![c] = [pc |-> "reconnecting", conn |-> got.conn]]
    /\ UNCHANGED <<conn, env>>

\* conn.connect() of get_connection has returned
Reconnected(c) ==
    /\ caller[c].pc = "reconnecting"
    /\ \/ /\ conn' = [conn EXCEPT ![caller[c].conn] = "up"]
          /\ pool' = [pool EXCEPT !.in_use = Append(pool.in_use, caller[c].conn)]
          /\ caller' = [caller EXCEPT ![c].pc = "holding"]
       \/ /\ \E n \in 0..max_connections : EnterGet(c, n)
    /\ UNCHANGED env

\* asyncio.wait_for gives up: TimeoutError
Timeout(c) ==
    /\ caller[c].pc = "waiting"
    /\ pool.available = <<>>
    /\ caller' = [caller EXCEPT ![c] = [pc |-> "timeout", conn |-> 0]]
    /\ UNCHANGED <<pool, conn, env>>

\* release_connection up to its first conn.connect()
Release(c) ==
    /\ caller[c].pc = "holding"
    /\ LET k == caller[c].conn
           pl == [pool EXCEPT !.in_use = Remove(pool.in_use, k)]
       IN IF is_connected(conn, k)
          THEN /\ pool' = [pl EXCEPT !.available = Append(pl.available, k)]
               /\ caller' = [caller EXCEPT ![c] = Idle]
          ELSE /\ pool' = pl
               /\ caller' = [caller EXCEPT ![c].pc = "release_reconnect"]
    /\ UNCHANGED <<conn, env>>

\* conn.connect() of release_connection has returned
ReleaseReconnected(c) ==
    /\ caller[c].pc = "release_reconnect"
    /\ LET k == caller[c].conn
           new == Cardinality(Created(conn)) + 1
       IN \/ /\ conn' = [conn EXCEPT ![k] = "up"]
             /\ pool' = [pool EXCEPT !.available = Append(pool.available, k)]
             /\ caller' = [caller EXCEPT ![c] = Idle]
          \/ /\ k \in Range(pool.connections)
             /\ new <= MaxConnIds
             /\ pool' = [pool EXCEPT !.connections = Remove(pool.connections, k)]
             /\ caller' = [caller EXCEPT ![c] = [pc |-> "release_replace", conn |-> new]]
             /\ conn' = [conn EXCEPT ![new] = "down"]
          \/ /\ k \notin Range(pool.connections)
             /\ caller' = [caller EXCEPT ![c] = [pc |-> "error", conn |-> 0]]
             /\ UNCHANGED <<pool, conn>>
    /\ UNCHANGED env

\* new_conn.connect() of release_connection has returned
ReleaseReplaced(c) ==
    /\ caller[c].pc = "release_replace"
    /\ LET k == caller[c].conn
       IN \/ /\ conn' = [conn EXCEPT ![k] = "up"]
             /\ pool' = [pool EXCEPT !.connections = Append(pool.connections, k),
                                     !.available = Append(pool.available, k)]
          \/ UNCHANGED <<pool, conn>>
    /\ caller' = [caller EXCEPT ![c] = Idle]
    /\ UNCHANGED env

\* close_all
CloseAll ==
    /\ env.closes < MaxCloses
    /\ pool.initialized
    /\ conn' = [k \in ConnIds |->
                  IF k \in Range(pool.in_use) \cup Range(pool.available)
                  THEN "down" ELSE conn[k]]
    /\ pool' = EmptyPool
    /\ env' = [env EXCEPT !.closes = env.closes + 1]
    /\ UNCHANGED caller

\* the gateway drops the link of a connection
LinkDrop ==
    /\ env.drops < MaxDrops
    /\ \E k \in ConnIds :
         /\ conn[k] = "up"
         /\ conn' = [conn EXCEPT ![k] = "down"]
    /\ env' = [env EXCEPT !.drops = env.drops + 1]
    /\ UNCHANGED <<pool, caller>>

---------------------------------------------------------------------------
\* gallump2_trading/core/connection_manager.py, ConnectionManager.  A step
\* runs from one point where the coroutine suspends to the next:
\* ib.connectAsync(...) and asyncio.sleep(wait_time).  The "caller" task
\* calls connect(); the "handler" task is the one that _on_error and
\* _on_disconnect create with asyncio.create_task(self._reconnect()).

max_reconnects == 5

NumClientIds == 2

\* the values random.randint(100, 999) is taken to return
ManagerClientIds == 100..(99 + NumClientIds)

Tasks == {"caller", "handler"}

InformationalCodes == {2104, 2106, 2158}
CriticalCodes == {504, 502, 1100, 1102}
ErrorCodes == InformationalCodes \cup CriticalCodes \cup {200, 201}

\* _get_next_client_id: the values it can return
get_next_client_id == ManagerClientIds

wait_time_Doubled(reconnect_attempts) == 2 ^ (reconnect_attempts + 1)

\* wait_time = min(2 ** self.reconnect_attempts, 30)
wait_time(reconnect_attempts) == IF 2 ^ reconnect_attempts < 30 THEN 2 ^ reconnect_attempts ELSE 30

NoManager == [ib |-> "none", client_id |-> None, reconnect_attempts |-> 0]

IdleTask == [pc |-> "idle", result |-> FALSE, using |-> None, failed |-> None, wait |-> 0, waits |-> <<>>, entry |-> 0, alone |-> TRUE]

NoError == [code |-> None, logged |-> FALSE, reconnect |-> FALSE, raised |-> FALSE]

InitManager ==
    /\ mgr = NoManager
    /\ task = [t \in Tasks |-> IdleTask]
    /\ onerr = NoError

Constructed == mgr.client_id # None

Running(t) == task[t].pc \in {"spawned", "connecting", "sleeping"}

\* ConnectionManager.__init__
NewConnectionManager ==
    /\ ~Constructed
    /\ \E id \in get_next_client_id :
         mgr' = [ib |-> "none", client_id |-> id, reconnect_attempts |-> 0]
    /\ onerr' = NoError /\ UNCHANGED task

\* task t returns res; of a call that no other task has run beside, the
\* sleeps stay on record
Done(tk, res) == IF tk.alone THEN [IdleTask EXCEPT !.pc = "returned", !.result = res, !.waits = tk.waits, !.entry = tk.entry] ELSE [IdleTask EXCEPT !.pc = "returned", !.result = res, !.alone = FALSE]

\* connect() of task t up to ib.connectAsync, on the manager m and with the
\* task record tk
connect(t, m, tk) ==
    IF m.ib = "up"
    THEN /\ mgr' = m
         /\ task' = [task EXCEPT ![t] = Done(tk, TRUE)]
    ELSE /\ mgr' = [m EXCEPT !.ib = "down"]
         /\ task' = [task EXCEPT ![t] = [tk EXCEPT !.pc = "connecting", !.using = m.client_id, !.wait = 0]]

\* _reconnect() of task t up to asyncio.sleep; waits lists the sleeps of a
\* call that no other task of the manager has run beside
reconnect(t, m, tk) ==
    IF m.reconnect_attempts >= max_reconnects
    THEN /\ mgr' = m
         /\ task' = [task EXCEPT ![t] = Done(tk, FALSE)]
    ELSE /\ mgr' = m
         /\ task' = [task EXCEPT ![t] = [tk EXCEPT !.pc = "sleeping", !.wait = wait_time(m.reconnect_attempts), !.waits = IF tk.alone THEN Append(tk.waits, wait_time(m.reconnect_attempts)) ELSE <<>>]]

\* a call of connect()
Connect ==
    /\ Constructed
    /\ task["caller"].pc \in {"idle", "returned"}
    /\ connect("caller", mgr, [IdleTask EXCEPT !.entry = mgr.reconnect_attempts, !.alone = ~Running("handler")])
    /\ onerr' = NoError

\* ib.connectAsync has returned: handlers registered, heartbeat started
ConnectSucceeded(t) ==
    /\ task[t].pc = "connecting"
    /\ mgr' = [mgr EXCEPT !.ib = "up", !.reconnect_attempts = 0]
    /\ task' = [task EXCEPT ![t] = Done(task[t], TRUE)]
    /\ onerr' = NoError

\* ib.connectAsync has raised: return await self._reconnect()
ConnectFailed(t) ==
    /\ task[t].pc = "connecting"
    /\ reconnect(t, mgr, [task[t] EXCEPT !.failed = task[t].using])
    /\ onerr' = NoError

\* asyncio.sleep(wait_time) of _reconnect is over
Wake(t) ==
    /\ task[t].pc = "sleeping"
    /\ \E id \in get_next_client_id :
         connect(t, [mgr EXCEPT !.reconnect_attempts = mgr.reconnect_attempts + 1, !.client_id = id], task[t])
    /\ onerr' = NoError

\* the task made by asyncio.create_task(self._reconnect()) starts to run
StartReconnect ==
    /\ task["handler"].pc = "spawned"
    /\ reconnect("handler", mgr, [task["handler"] EXCEPT !.failed = mgr.client_id])
    /\ onerr' = NoError

\* asyncio.create_task(self._reconnect())
create_task(tasks) == [tasks EXCEPT !["handler"] = [IdleTask EXCEPT !.pc = "spawned", !.alone = FALSE], !["caller"] = IF Running("caller") THEN [tasks["caller"] EXCEPT !.alone = FALSE, !.waits = <<>>, !.entry = 0] ELSE tasks["caller"]]

\* _on_error: what the handler does with an error code
on_error(code) == [code |-> code, logged |-> code \notin InformationalCodes, reconnect |-> code \notin InformationalCodes /\ code \in CriticalCodes, raised |-> FALSE]

\* the errorEvent of the connected ib fires with errorCode code
OnError ==
    /\ mgr.ib = "up"
    /\ ~Running("handler")
    /\ \E code \in ErrorCodes :
         /\ onerr' = on_error(code)
         /\ task' = IF on_error(code).reconnect THEN create_task(task) ELSE task
    /\ UNCHANGED mgr

\* the disconnectedEvent of the connected ib fires
OnDisconnect ==
    /\ mgr.ib = "up"
    /\ ~Running("handler")
    /\ mgr' = [mgr EXCEPT !.ib = "down"]
    /\ task' = create_task(task)
    /\ onerr' = NoError

---------------------------------------------------------------------------
\* gallump/core/broker.py, Broker.connect.  The method is synchronous; a
\* step ends where it waits for the gateway: ib.connect, ib.reqCurrentTime
\* and ib.reqMarketDataType.

\* for attempt in range(10)
connect_attempts == 10

\* the values random.randint(10, 999) is taken to return
BrokerClientIds == 10..(9 + NumClientIds)

\* Broker.__init__ with client_id=None
NewBroker == [pc |-> "idle", op |-> "init", result |-> FALSE, attempt |-> 0, client_id |-> None, generated |-> FALSE, failed |-> None, link |-> "closed", connected |-> FALSE, connection_ready |-> FALSE]

InitBroker == brk = NewBroker

\* the head of the loop body up to ib.connect: the records b can become
next_attempt(b) ==
    IF b.attempt >= connect_attempts
    THEN {[b EXCEPT !.pc = "returned", !.result = FALSE]}
    ELSE IF b.client_id = None
         THEN {[b EXCEPT !.pc = "opening", !.attempt = b.attempt + 1, !.client_id = id, !.generated = TRUE] : id \in BrokerClientIds}
         ELSE {[b EXCEPT !.pc = "opening", !.attempt = b.attempt + 1, !.generated = FALSE]}

opened_Ready(b) == [b EXCEPT !.pc = "verifying", !.link = "open", !.failed = None, !.connection_ready = TRUE]

\* ib.connect has returned and ib.sleep(2) is over
opened(b) == [b EXCEPT !.pc = "verifying", !.link = "open", !.failed = None]

\* a call of connect()
BrokerConnect ==
    /\ brk.pc \in {"idle", "returned"}
    /\ IF brk.connected
       THEN brk' = [brk EXCEPT !.pc = "returned", !.op = "connect", !.result = TRUE]
       ELSE brk' \in next_attempt([brk EXCEPT !.op = "connect", !.attempt = 0, !.failed = None, !.result = FALSE])

\* ib.connect returns or raises
BrokerOpened ==
    /\ brk.pc = "opening"
    /\ \/ brk' = opened([brk EXCEPT !.op = "open"])
       \/ brk' \in next_attempt([brk EXCEPT !.op = "in_use", !.failed = brk.client_id, !.client_id = None])
       \/ brk' \in next_attempt([brk EXCEPT !.op = "socket_disconnect", !.failed = None, !.client_id = None])
       \/ brk' \in next_attempt([brk EXCEPT !.op = "open_failed", !.failed = None])

\* ib.reqCurrentTime returns or raises
BrokerVerified ==
    /\ brk.pc = "verifying"
    /\ \/ brk' = [brk EXCEPT !.pc = "setup", !.op = "verified", !.connection_ready = TRUE]
       \/ brk' \in next_attempt([brk EXCEPT !.op = "verify_failed", !.link = "closed", !.client_id = None])

\* ib.reqMarketDataType returns or raises
BrokerSetup ==
    /\ brk.pc = "setup"
    /\ \/ brk' = [brk EXCEPT !.pc = "returned", !.op = "setup", !.connected = TRUE, !.result = TRUE]
       \/ brk' \in next_attempt([brk EXCEPT !.op = "socket_disconnect", !.link = "closed", !.client_id = None])
       \/ brk' \in next_attempt([brk EXCEPT !.op = "setup_failed", !.link = "closed"])

\* Broker.disconnect
BrokerDisconnect ==
    /\ brk.pc \in {"idle", "returned"}
    /\ brk.connected
    /\ brk' = [brk EXCEPT !.op = "disconnect", !.link = "closed", !.connected = FALSE, !.connection_ready = FALSE]

\* the gateway drops the link
BrokerLinkDrop ==
    /\ brk.pc \in {"idle", "returned"}
    /\ brk.link = "open"
    /\ brk' = [brk EXCEPT !.op = "drop", !.link = "closed"]

---------------------------------------------------------------------------
InitLink == InitPool /\ InitManager /\ InitBroker

\* no bracket placed, get_status not called
NoBracket == [pc |-> "idle", legs |-> <<>>, parent_id |-> None, cancels |-> 0, path |-> <<>>]

\* Optional[PendingOrder] without an order
NoOrder == [order_id |-> None]

NoStatus == [bracket |-> NoOrder, status |-> ""]

InitBracket == bracket = NoBracket /\ statusOf = NoStatus

\* Cache.__init__: nothing cached
NoBracketCache == [brackets |-> {}, timestamp |-> None]

\* Broker.__init__: total_request_count, failed_request_count; calls and
\* failures count the gateway calls made and those of them that failed
NoRequests == [total_request_count |-> 0, failed_request_count |-> 0, calls |-> 0, failures |-> 0]

NoPasses == [before |-> <<>>, pass |-> <<>>]

\* Cache.memory_cache without the session's key
NoEntry == [data |-> <<>>, expires |-> None]

NoSession == [entry |-> NoEntry, added |-> <<>>]

InitLater == bcache = NoBracketCache /\ health = NoRequests /\ passes = NoPasses /\ sess = NoSession

---------------------------------------------------------------------------
\* State machine of the order plane

LimitPrices == {5000}

InitOrders ==
    /\ trades = <<>>
    /\ store = <<>>
    /\ cache = NoCache
    /\ now = 0
    /\ passSnap = <<>>
    /\ strategyStatus = "PENDING_USER_APPROVAL"
    /\ tradeTable = <<>>
    /\ last = [op |-> "init"]

InitRisk ==
    /\ riskIn = None
    /\ riskOut = <<>>
    /\ safeOut = <<>>

\* the clock advances
Tick ==
    /\ now + TickStep <= MaxTime
    /\ now' = now + TickStep
    /\ last' = [op |-> "tick"]
    /\ UNCHANGED <<trades, store, cache, passSnap>>

\* the gateway moves one order along its state machine
GatewayProgress ==
    \E i \in DOMAIN trades :
      \E s \in GatewayNext(trades[i]) :
        \E f \in GatewayFilled(trades[i], s) :
          /\ trades' = [trades EXCEPT ![i].status = s,
                                      ![i].filled = f,
                                      ![i].avgFillPrice =
                                          IF f > 0 THEN FillPrice ELSE 0]
          /\ last' = [op |-> "gateway"]
          /\ UNCHANGED <<store, cache, now, passSnap>>

\* routes.py get_pending_orders: served from the cache, or a Reconcile pass
GetPendingOrders ==
    \E force_refresh \in BOOLEAN, linkUp \in BOOLEAN :
      LET cached_orders == get_cached_pending_orders(cache, now)
          live_orders == get_enhanced_open_orders(trades, linkUp)
      IN IF ~force_refresh /\ cached_orders # <<>>
         THEN /\ last' = [op |-> "get_pending_orders", source |-> "cache",
                          orders |-> cached_orders, repeat |-> FALSE,
                          once |-> None]
              /\ UNCHANGED <<trades, store, cache, now, passSnap>>
         ELSE LET store2 == sync_pending_orders(store, live_orders)
                  cache2 == cache_pending_orders(live_orders, now)
                  again == /\ last.op = "get_pending_orders"
                           /\ last.source = "live_ibkr"
                           /\ last.orders = live_orders
              IN /\ store' = store2
                 /\ cache' = cache2
                 /\ passSnap' = live_orders
                 /\ last' = [op |-> "get_pending_orders", source |-> "live_ibkr",
                             orders |-> live_orders, repeat |-> again,
                             once |-> IF again THEN last.once
                                      ELSE [store |-> store2,
                                            orders |-> cache2.orders]]
                 /\ UNCHANGED <<trades, now>>

\* routes.py cancel_order
CancelOrder ==
    \E order_id \in OrderIds, linkUp \in BOOLEAN :
      LET r == cancel_order(trades, linkUp, order_id)
      IN /\ trades' = r.trades
         /\ IF r.success
            THEN /\ store' = update_order_status(store, order_id, "Cancelled",
                                                 None, None)
                 /\ cache' = invalidate_pending_orders
            ELSE UNCHANGED <<store, cache>>
         /\ last' = [op |-> "cancel_order", order_id |-> order_id,
                     success |-> r.success]
         /\ UNCHANGED <<now, passSnap>>

\* Broker.sync_order_statuses, the periodic status pass
SyncOrderStatuses ==
    \E linkUp \in BOOLEAN :
      /\ store' = sync_order_statuses(store,
                                      get_enhanced_open_orders(trades, linkUp))
      /\ last' = [op |-> "sync_order_statuses"]
      /\ UNCHANGED <<trades, cache, now, passSnap>>

\* Broker.place_order called directly
PlaceOrder ==
    \E order_type \in {"LMT"}, linkUp \in BOOLEAN :
      \E limit_price \in LimitPrices :
        LET r == place_order(trades, linkUp, OrderQty, order_type, limit_price)
        IN /\ Len(trades) < MaxOrders
           /\ trades' = r.trades
           /\ last' = [op |-> "place_order", order_id |-> r.order_id]
           /\ UNCHANGED <<store, cache, now, passSnap>>

Init == InitOrders /\ InitRisk /\ InitLink /\ InitBracket /\ InitLater

Next ==
    \/ (Tick /\ UNCHANGED workflowVars /\ UNCHANGED riskVars /\ UNCHANGED linkVars /\ UNCHANGED restVars)
    \/ (GatewayProgress /\ UNCHANGED workflowVars /\ UNCHANGED riskVars /\ UNCHANGED linkVars /\ UNCHANGED restVars)
    \/ (GetPendingOrders /\ UNCHANGED workflowVars /\ UNCHANGED riskVars /\ UNCHANGED linkVars /\ UNCHANGED restVars)
    \/ (CancelOrder /\ UNCHANGED workflowVars /\ UNCHANGED riskVars /\ UNCHANGED linkVars /\ UNCHANGED restVars)
    \/ (SyncOrderStatuses /\ UNCHANGED workflowVars /\ UNCHANGED riskVars /\ UNCHANGED linkVars /\ UNCHANGED restVars)
    \/ (PlaceOrder /\ UNCHANGED workflowVars /\ UNCHANGED riskVars /\ UNCHANGED linkVars /\ UNCHANGED restVars)

Spec == Init /\ [][Next]_vars

---------------------------------------------------------------------------
\* api/server.py confirm_strategy, the confirmation workflow

MaxStrategyOrders == 2
MaxWorkflowTrades == 1

StrategyId == 1

TotalValues == {100000}

RawOrders ==
    {RawOrder("MARKET", OrderQty, None, None, None, None),
     RawOrder("LMT", OrderQty, 5000, None, None, None),
     RawOrder("LMT", OrderQty, 6000, None, None, None),
     RawOrder("LIMIT", OrderQty, None, None, None, None),
     RawOrder("STP", OrderQty, None, None, None, None),
     RawOrder("STOP", OrderQty, None, 4000, None, None),
     RawOrder("STP LMT", OrderQty, 5000, None, None, None),
     RawOrder("STOP_LIMIT", OrderQty, None, 4000, None, None),
     RawOrder("TRAIL", OrderQty, None, None, 100, None),
     RawOrder("TRAIL", OrderQty, None, None, 100, 5),
     RawOrder("TRAIL", OrderQty, None, None, None, None)}

Strategies == UNION {[1..n -> RawOrders] : n \in 0..MaxStrategyOrders}

\* order.get(key, 0)
GetOr0(x) == IF x = None THEN 0 ELSE x

\* step 3: the RiskResult of every validated order
RiskResults(validated_orders, total_value) ==
    [k \in DOMAIN validated_orders |->
        evaluate(Trade("STOCK", GetOr0(validated_orders[k].limit_price),
                       validated_orders[k].quantity),
                 Portfolio(total_value, 0))]

risk_approved_LastOnly(results) ==
    results = <<>> \/ results[Len(results)].approved

risk_approved(results) == \A k \in DOMAIN results : results[k].approved

RECURSIVE risk_warnings(_)
risk_warnings(results) ==
    IF results = <<>> THEN <<>>
    ELSE (IF Head(results).approved THEN <<>> ELSE Head(results).warnings)
         \o risk_warnings(Tail(results))

\* one round of the loop of step 4
ExecuteOrder(acc, order, up) ==
    LET r == IF order.order_type = "TRAIL"
             THEN place_trailing_stop_order(acc.trades, up, order.quantity,
                                            order.trail_amount, order.trail_percent)
             ELSE place_order(acc.trades, up, order.quantity, order.order_type,
                              order.limit_price)
        call == IF order.order_type = "TRAIL" THEN "place_trailing_stop_order"
                ELSE "place_order"
    IN IF Truthy(r.order_id)
       THEN [trades |-> r.trades,
             executed |-> Append(acc.executed, r.order_id),
             failed |-> acc.failed,
             rows |-> Append(acc.rows,
                             [strategy_id |-> StrategyId,
                              quantity |-> order.quantity,
                              order_type |-> order.order_type,
                              limit_price |-> order.limit_price,
                              fill_status |-> "submitted"]),
             calls |-> Append(acc.calls, call)]
       ELSE [trades |-> r.trades,
             executed |-> acc.executed,
             failed |-> acc.failed + 1,
             rows |-> acc.rows,
             calls |-> Append(acc.calls, call)]

RECURSIVE ExecuteOrders(_, _, _)
ExecuteOrders(acc, orders, up) ==
    IF orders = <<>> THEN acc
    ELSE ExecuteOrders(ExecuteOrder(acc, Head(orders), up), Tail(orders), up)

Rejected(strategy_id, orders, code, error, risk, warnings, calls) ==
    [op |-> "confirm_strategy", strategy_id |-> strategy_id, orders |-> orders,
     code |-> code, error |-> error, risk |-> risk, warnings |-> warnings,
     executed |-> <<>>, failed |-> 0, calls |-> calls, transmitted |-> {}]

\* the whole handler: what it returns and the tables and trades it leaves
confirm_strategy(strategy_id, confirmed, orders, up1, up2, total_value) ==
    LET same(l) == [trades |-> trades, tradeTable |-> tradeTable,
                    strategyStatus |-> strategyStatus, last |-> l]
        vals == [k \in DOMAIN orders |-> validate_order(orders[k])]
        validated_orders == [k \in DOMAIN orders |-> vals[k].order]
        results == RiskResults(validated_orders, total_value)
        done == ExecuteOrders([trades |-> trades, executed |-> <<>>, failed |-> 0,
                               rows |-> tradeTable, calls |-> <<"get_portfolio">>],
                              validated_orders, up2)
    IN IF ~confirmed
       THEN same(Rejected(strategy_id, orders, 400, "User confirmation required",
                          <<>>, <<>>, <<>>))
       ELSE IF strategy_id # StrategyId
       THEN same(Rejected(strategy_id, <<>>, 404, "Strategy not found", <<>>, <<>>,
                          <<>>))
       ELSE IF orders = <<>>
       THEN same(Rejected(strategy_id, orders, 400, "Strategy has no orders",
                          <<>>, <<>>, <<>>))
       ELSE IF \E k \in DOMAIN vals : ~vals[k].ok
       THEN same(Rejected(strategy_id, orders, 500, "Strategy execution failed",
                          <<>>, <<>>, <<>>))
       ELSE IF ~up1
       THEN same(Rejected(strategy_id, orders, 500, "Strategy execution failed",
                          <<>>, <<>>, <<"get_portfolio">>))
       ELSE IF ~risk_approved(results)
       THEN same(Rejected(strategy_id, orders, 400, "Strategy failed risk checks",
                          results, risk_warnings(results), <<"get_portfolio">>))
       ELSE [trades |-> done.trades,
             tradeTable |-> done.rows,
             strategyStatus |->
                 IF done.executed = <<>> THEN strategyStatus
                 ELSE IF done.failed = 0 THEN "executed" ELSE "partial",
             last |-> [op |-> "confirm_strategy", strategy_id |-> strategy_id,
                       orders |-> orders, code |-> 200,
                       error |-> IF done.failed = 0 THEN "executed" ELSE "partial",
                       risk |-> results, warnings |-> <<>>,
                       executed |-> done.executed, failed |-> done.failed,
                       calls |-> done.calls,
                       transmitted |-> (Len(trades) + 1)..Len(done.trades)]]

\* the requests the handler is driven with: the link is up or down when the
\* portfolio is fetched (up1) and when the orders are placed (up2)
ConfirmRequests ==
    {[strategy_id |-> StrategyId, confirmed |-> FALSE, orders |-> <<>>,
      up1 |-> TRUE, up2 |-> TRUE, total_value |-> 0],
     [strategy_id |-> StrategyId + 1, confirmed |-> TRUE, orders |-> <<>>,
      up1 |-> TRUE, up2 |-> TRUE, total_value |-> 0]}
    \cup
    {[strategy_id |-> StrategyId, confirmed |-> TRUE, orders |-> o,
      up1 |-> u[1], up2 |-> u[2], total_value |-> t] :
        o \in Strategies, u \in {<<FALSE, FALSE>>, <<TRUE, FALSE>>, <<TRUE, TRUE>>},
        t \in TotalValues}

ConfirmStrategy ==
    \E req \in ConfirmRequests :
      \E r \in {confirm_strategy(req.strategy_id, req.confirmed, req.orders,
                                  req.up1, req.up2, req.total_value)} :
         /\ Len(r.trades) <= MaxWorkflowTrades
         /\ trades' = r.trades
         /\ tradeTable' = r.tradeTable
         /\ strategyStatus' = r.strategyStatus
         /\ last' = r.last
         /\ UNCHANGED <<store, cache, now, passSnap>>

\* Broker.validate_ibkr_order_type asked about a TRAIL parameter set
ValidateIbkrOrderType ==
    \E order_params \in SUBSET {"trail_amount", "trail_percent"} :
      /\ last' = [op |-> "validate_ibkr_order_type", order_type |-> "TRAIL",
                  order_params |-> order_params,
                  valid |-> validate_ibkr_order_type("TRAIL", order_params)]
      /\ UNCHANGED <<trades, store, cache, now, passSnap, strategyStatus, tradeTable>>

NextWorkflow ==
    \/ (ConfirmStrategy /\ UNCHANGED riskVars /\ UNCHANGED linkVars /\ UNCHANGED restVars)
    \/ (ValidateIbkrOrderType /\ UNCHANGED riskVars /\ UNCHANGED linkVars /\ UNCHANGED restVars)
    \/ (GetPendingOrders /\ UNCHANGED workflowVars /\ UNCHANGED riskVars /\ UNCHANGED linkVars /\ UNCHANGED restVars)
    \/ (CancelOrder /\ UNCHANGED workflowVars /\ UNCHANGED riskVars /\ UNCHANGED linkVars /\ UNCHANGED restVars)

SpecWorkflow == Init /\ [][NextWorkflow]_vars

---------------------------------------------------------------------------
\* The risk gate on its own

MaxPositionCount == 11

RiskInputs ==
    {[trade |-> Trade(a, p, q), portfolio |-> Portfolio(t, n)] :
        a \in {"STOCK", "OPTION"}, p \in {0, 5, 5000, 6000, 20000},
        q \in 1..OrderQty,
        t \in {-100000, 0, 100000}, n \in 0..MaxPositionCount}

InitRiskGate ==
    /\ InitOrders
    /\ InitLink
    /\ InitBracket
    /\ InitLater
    /\ riskIn \in RiskInputs
    /\ riskOut = <<>>
    /\ safeOut = <<>>

Evaluate ==
    /\ riskOut = <<>>
    /\ riskOut' = <<evaluate(riskIn.trade, riskIn.portfolio)>>
    /\ UNCHANGED <<riskIn, safeOut>>

CalculateSafeSize ==
    /\ safeOut = <<>>
    /\ safeOut' = <<calculate_safe_size(riskIn.trade, riskIn.portfolio)>>
    /\ UNCHANGED <<riskIn, riskOut>>

NextRiskGate ==
    \/ (Evaluate /\ UNCHANGED orderVars /\ UNCHANGED linkVars /\ UNCHANGED restVars)
    \/ (CalculateSafeSize /\ UNCHANGED orderVars /\ UNCHANGED linkVars /\ UNCHANGED restVars)

SpecRiskGate == InitRiskGate /\ [][NextRiskGate]_vars

---------------------------------------------------------------------------
\* The connection pool with its callers

NextPool ==
    \/ (\E c \in Callers : GetConnection(c)) /\ UNCHANGED orderVars /\ UNCHANGED riskVars /\ UNCHANGED managerVars /\ UNCHANGED brokerVars /\ UNCHANGED restVars
    \/ (\E c \in Callers : Acquire(c)) /\ UNCHANGED orderVars /\ UNCHANGED riskVars /\ UNCHANGED managerVars /\ UNCHANGED brokerVars /\ UNCHANGED restVars
    \/ (\E c \in Callers : Reconnected(c)) /\ UNCHANGED orderVars /\ UNCHANGED riskVars /\ UNCHANGED managerVars /\ UNCHANGED brokerVars /\ UNCHANGED restVars
    \/ (\E c \in Callers : Timeout(c)) /\ UNCHANGED orderVars /\ UNCHANGED riskVars /\ UNCHANGED managerVars /\ UNCHANGED brokerVars /\ UNCHANGED restVars
    \/ (\E c \in Callers : Release(c)) /\ UNCHANGED orderVars /\ UNCHANGED riskVars /\ UNCHANGED managerVars /\ UNCHANGED brokerVars /\ UNCHANGED restVars
    \/ (\E c \in Callers : ReleaseReconnected(c)) /\ UNCHANGED orderVars /\ UNCHANGED riskVars /\ UNCHANGED managerVars /\ UNCHANGED brokerVars /\ UNCHANGED restVars
    \/ (\E c \in Callers : ReleaseReplaced(c)) /\ UNCHANGED orderVars /\ UNCHANGED riskVars /\ UNCHANGED managerVars /\ UNCHANGED brokerVars /\ UNCHANGED restVars
    \/ (CloseAll /\ UNCHANGED orderVars /\ UNCHANGED riskVars /\ UNCHANGED managerVars /\ UNCHANGED brokerVars /\ UNCHANGED restVars)
    \/ (LinkDrop /\ UNCHANGED orderVars /\ UNCHANGED riskVars /\ UNCHANGED managerVars /\ UNCHANGED brokerVars /\ UNCHANGED restVars)

SpecPool == Init /\ [][NextPool]_vars

---------------------------------------------------------------------------
\* The pool under a rush: max_connections + 1 tasks ask at once, every
\* connect succeeds, and a task keeps its connection for longer than the
\* checkout timeout, so that nothing is released while a task still waits.

RushCallers == 1..(max_connections + 1)

InitRush ==
    /\ InitOrders
    /\ InitRisk
    /\ pool = EmptyPool
    /\ conn = [k \in ConnIds |-> "none"]
    /\ caller = [c \in RushCallers |-> Idle]
    /\ env = [drops |-> 0, closes |-> 0]
    /\ InitManager
    /\ InitBroker
    /\ InitBracket
    /\ InitLater

RushGet(c) ==
    /\ caller[c].pc = "idle"
    /\ EnterGet(c, IF pool.initialized THEN 0 ELSE max_connections)
    /\ UNCHANGED env

RushRelease(c) ==
    /\ \A d \in RushCallers : caller[d].pc \in {"holding", "timeout"}
    /\ Release(c)

NextRush ==
    \/ (\E c \in RushCallers : RushGet(c)) /\ UNCHANGED orderVars /\ UNCHANGED riskVars /\ UNCHANGED managerVars /\ UNCHANGED brokerVars /\ UNCHANGED restVars
    \/ (\E c \in RushCallers : Acquire(c)) /\ UNCHANGED orderVars /\ UNCHANGED riskVars /\ UNCHANGED managerVars /\ UNCHANGED brokerVars /\ UNCHANGED restVars
    \/ (\E c \in RushCallers : Timeout(c)) /\ UNCHANGED orderVars /\ UNCHANGED riskVars /\ UNCHANGED managerVars /\ UNCHANGED brokerVars /\ UNCHANGED restVars
    \/ (\E c \in RushCallers : RushRelease(c)) /\ UNCHANGED orderVars /\ UNCHANGED riskVars /\ UNCHANGED managerVars /\ UNCHANGED brokerVars /\ UNCHANGED restVars

\* the event loop resumes a task suspended in asyncio.wait_for: with the
\* connection or with the timeout
RushFairness ==
    \A c \in RushCallers :
        WF_vars((Acquire(c) \/ Timeout(c)) /\ UNCHANGED orderVars /\ UNCHANGED riskVars /\ UNCHANGED managerVars /\ UNCHANGED brokerVars /\ UNCHANGED restVars)

SpecPoolRush == InitRush /\ [][NextRush]_vars /\ RushFairness

---------------------------------------------------------------------------
\* The ConnectionManager with its tasks and events

NextManager ==
    \/ (NewConnectionManager /\ UNCHANGED orderVars /\ UNCHANGED riskVars /\ UNCHANGED poolVars /\ UNCHANGED brokerVars /\ UNCHANGED restVars)
    \/ (Connect /\ UNCHANGED orderVars /\ UNCHANGED riskVars /\ UNCHANGED poolVars /\ UNCHANGED brokerVars /\ UNCHANGED restVars)
    \/ (\E t \in Tasks : ConnectSucceeded(t)) /\ UNCHANGED orderVars /\ UNCHANGED riskVars /\ UNCHANGED poolVars /\ UNCHANGED brokerVars /\ UNCHANGED restVars
    \/ (\E t \in Tasks : ConnectFailed(t)) /\ UNCHANGED orderVars /\ UNCHANGED riskVars /\ UNCHANGED poolVars /\ UNCHANGED brokerVars /\ UNCHANGED restVars
    \/ (\E t \in Tasks : Wake(t)) /\ UNCHANGED orderVars /\ UNCHANGED riskVars /\ UNCHANGED poolVars /\ UNCHANGED brokerVars /\ UNCHANGED restVars
    \/ (StartReconnect /\ UNCHANGED orderVars /\ UNCHANGED riskVars /\ UNCHANGED poolVars /\ UNCHANGED brokerVars /\ UNCHANGED restVars)
    \/ (OnError /\ UNCHANGED orderVars /\ UNCHANGED riskVars /\ UNCHANGED poolVars /\ UNCHANGED brokerVars /\ UNCHANGED restVars)
    \/ (OnDisconnect /\ UNCHANGED orderVars /\ UNCHANGED riskVars /\ UNCHANGED poolVars /\ UNCHANGED brokerVars /\ UNCHANGED restVars)

\* the event loop resumes a task when connectAsync (timeout=10) or
\* asyncio.sleep is over, and starts a created task
ManagerFairness ==
    /\ \A t \in Tasks : WF_vars((ConnectSucceeded(t) \/ ConnectFailed(t) \/ Wake(t)) /\ UNCHANGED orderVars /\ UNCHANGED riskVars /\ UNCHANGED poolVars /\ UNCHANGED brokerVars /\ UNCHANGED restVars)
    /\ WF_vars(StartReconnect /\ UNCHANGED orderVars /\ UNCHANGED riskVars /\ UNCHANGED poolVars /\ UNCHANGED brokerVars /\ UNCHANGED restVars)

SpecManager == Init /\ [][NextManager]_vars /\ ManagerFairness

---------------------------------------------------------------------------
\* Broker.connect with its gateway

NextBroker ==
    \/ (BrokerConnect /\ UNCHANGED orderVars /\ UNCHANGED riskVars /\ UNCHANGED poolVars /\ UNCHANGED managerVars /\ UNCHANGED restVars)
    \/ (BrokerOpened /\ UNCHANGED orderVars /\ UNCHANGED riskVars /\ UNCHANGED poolVars /\ UNCHANGED managerVars /\ UNCHANGED restVars)
    \/ (BrokerVerified /\ UNCHANGED orderVars /\ UNCHANGED riskVars /\ UNCHANGED poolVars /\ UNCHANGED managerVars /\ UNCHANGED restVars)
    \/ (BrokerSetup /\ UNCHANGED orderVars /\ UNCHANGED riskVars /\ UNCHANGED poolVars /\ UNCHANGED managerVars /\ UNCHANGED restVars)
    \/ (BrokerDisconnect /\ UNCHANGED orderVars /\ UNCHANGED riskVars /\ UNCHANGED poolVars /\ UNCHANGED managerVars /\ UNCHANGED restVars)
    \/ (BrokerLinkDrop /\ UNCHANGED orderVars /\ UNCHANGED riskVars /\ UNCHANGED poolVars /\ UNCHANGED managerVars /\ UNCHANGED restVars)

SpecBroker == Init /\ [][NextBroker]_vars

---------------------------------------------------------------------------
\* Both ways of opening a session, side by side: a task calling
\* ConnectionManager.connect and a thread calling Broker.connect

NextSession ==
    \/ (NewConnectionManager /\ UNCHANGED orderVars /\ UNCHANGED riskVars /\ UNCHANGED poolVars /\ UNCHANGED brokerVars /\ UNCHANGED restVars)
    \/ (Connect /\ UNCHANGED orderVars /\ UNCHANGED riskVars /\ UNCHANGED poolVars /\ UNCHANGED brokerVars /\ UNCHANGED restVars)
    \/ (ConnectSucceeded("caller") /\ UNCHANGED orderVars /\ UNCHANGED riskVars /\ UNCHANGED poolVars /\ UNCHANGED brokerVars /\ UNCHANGED restVars)
    \/ (ConnectFailed("caller") /\ UNCHANGED orderVars /\ UNCHANGED riskVars /\ UNCHANGED poolVars /\ UNCHANGED brokerVars /\ UNCHANGED restVars)
    \/ (Wake("caller") /\ UNCHANGED orderVars /\ UNCHANGED riskVars /\ UNCHANGED poolVars /\ UNCHANGED brokerVars /\ UNCHANGED restVars)
    \/ NextBroker

SpecSession == Init /\ [][NextSession]_vars

---------------------------------------------------------------------------
\* Bracket orders: Broker.place_bracket_order, the gateway's handling of
\* the group, the Reconcile pass, Storage.get_bracket_orders and
\* BracketOrder.get_status.  ib.client.getReqId() hands out the next id, so
\* an order's id is its position in trades.

MaxBrackets == 1
MaxBracketCancels == 1

BracketPrices == {[entry |-> 5000, target |-> 5500, stop |-> 4500]}

\* oca_group = f"BRACKET_{int(time.time() * 1000)}", as a number
OcaLabel(t) == 1000 * t + 1

\* LimitOrder / StopOrder with the fields place_bracket_order sets
BracketLeg(orderType, qty, lmt, aux, parentId, ocaGroup, transmit) ==
    [transmit |-> transmit] @@ [NewTrade(orderType, qty, lmt, aux, None, None) EXCEPT !.parentId = parentId, !.ocaGroup = ocaGroup]

place_bracket_order_ParentTransmits(next_id, quantity, entry_price, profit_target, stop_loss, t) ==
    <<BracketLeg("LMT", quantity, entry_price, None, 0, 0, TRUE),
      BracketLeg("LMT", quantity, profit_target, None, next_id, OcaLabel(t), FALSE),
      BracketLeg("STP", quantity, None, stop_loss, next_id, OcaLabel(t), TRUE)>>

\* Broker.place_bracket_order: the orders it hands to ib.placeOrder, in the
\* order of the calls; next_id is what getReqId returns first
place_bracket_order(next_id, quantity, entry_price, profit_target, stop_loss, t) ==
    <<BracketLeg("LMT", quantity, entry_price, None, 0, 0, FALSE),
      BracketLeg("LMT", quantity, profit_target, None, next_id, OcaLabel(t), FALSE),
      BracketLeg("STP", quantity, None, stop_loss, next_id, OcaLabel(t), TRUE)>>

\* the parent's id for a child, the order's own id for a parent
GroupOf(tr, i) == IF tr[i].parentId # 0 THEN tr[i].parentId ELSE i

\* the gateway holds an order sent with transmit=False until an order of its
\* group sent after it arrives with transmit=True
Released(tr, i) ==
    \E j \in DOMAIN tr : j >= i /\ GroupOf(tr, j) = GroupOf(tr, i) /\ tr[j].transmit

\* the statuses the gateway can give order i next: a child waits for its
\* parent to fill and is cancelled with it
BracketGatewayNext(tr, i) ==
    IF ~Released(tr, i) THEN {}
    ELSE IF tr[i].parentId = 0 THEN GatewayNext(tr[i]) \ {"PartiallyFilled"}
    ELSE LET parent == tr[tr[i].parentId]
         IN IF parent.status = "Filled" THEN GatewayNext(tr[i]) \ {"PartiallyFilled", "Inactive"}
            ELSE IF parent.status \in {"Cancelled", "Inactive"} THEN (IF tr[i].status \in DoneStates THEN {} ELSE {"Cancelled"})
            ELSE IF tr[i].status = "PendingSubmit" THEN {"PreSubmitted"} ELSE {}

\* one-cancels-all: when order i fills, the gateway cancels the other
\* orders of its OCA group
OcaCancel(tr, i, s) ==
    [j \in DOMAIN tr |->
       IF j # i /\ s = "Filled" /\ tr[i].ocaGroup # 0 /\ tr[j].ocaGroup = tr[i].ocaGroup /\ tr[j].status \notin DoneStates
       THEN [tr[j] EXCEPT !.status = "Cancelled"]
       ELSE tr[j]]

\* types.py BracketOrder: a missing leg is NoOrder
BracketOrder(main_order, profit_target, stop_loss, oca_group) ==
    [main_order |-> main_order, profit_target |-> profit_target, stop_loss |-> stop_loss, oca_group |-> oca_group]

is_complete(b) == b.main_order # NoOrder /\ b.profit_target # NoOrder /\ b.stop_loss # NoOrder

\* BracketOrder.get_status
get_status(b) ==
    LET exit_orders == {o \in {b.profit_target, b.stop_loss} : o # NoOrder /\ o # b.main_order}
    IN IF ~Truthy(b.main_order.filled_quantity) THEN b.main_order.status
       ELSE IF \E o \in exit_orders : o.status = "Filled" THEN "Bracket Closed"
       ELSE IF \E o \in exit_orders : o.status \in {"Submitted", "PreSubmitted"} THEN "Managing Position"
       ELSE "Bracket Active"

\* the row a loop over the rows ids leaves in its variable: the last one,
\* NoOrder without any; the rows come in the order of the query (here: by id)
LastRow(st, ids) == IF ids = {} THEN NoOrder ELSE st[CHOOSE i \in ids : \A j \in ids : j <= i]

\* Storage.get_bracket_orders: the brackets, as a set
get_bracket_orders(st) ==
    LET labels == {st[i].oca_group : i \in DOMAIN st} \ {None, 0}
        members(g) == {i \in DOMAIN st : st[i].oca_group = g}
        groups == {g \in labels : Cardinality(members(g)) > 1}
        main(g) == LastRow(st, {i \in members(g) : st[i].parent_id = None})
        stop(g) == LastRow(st, {i \in members(g) : st[i].parent_id # None /\ st[i].order_type \in {"STP", "TRAIL"}})
        profit(g) == LastRow(st, {i \in members(g) : st[i].parent_id # None /\ st[i].order_type = "LMT"})
    IN {BracketOrder(main(g), profit(g), stop(g), g) : g \in {h \in groups : main(h) # NoOrder}}

\* place_bracket_order up to its first ib.placeOrder
PlaceBracket ==
    /\ bracket.pc = "idle"
    /\ Len(trades) + 3 <= 3 * MaxBrackets
    /\ \E quantity \in 1..OrderQty, p \in BracketPrices :
         LET legs == place_bracket_order(Len(trades) + 1, quantity, p.entry, p.target, p.stop, now)
         IN /\ trades' = Append(trades, Head(legs))
            /\ bracket' = [bracket EXCEPT !.pc = "placing", !.legs = Tail(legs), !.parent_id = Len(trades) + 1]
    /\ UNCHANGED <<store, cache, now, passSnap, last, statusOf>>

\* the next ib.placeOrder of place_bracket_order
PlaceBracketNext ==
    /\ bracket.pc = "placing"
    /\ trades' = Append(trades, Head(bracket.legs))
    /\ bracket' = [bracket EXCEPT !.legs = Tail(bracket.legs), !.pc = IF Len(bracket.legs) = 1 THEN "placed" ELSE "placing"]
    /\ UNCHANGED <<store, cache, now, passSnap, last, statusOf>>

\* the gateway moves one released order along
BracketGatewayProgress ==
    /\ \E i \in DOMAIN trades :
         \E s \in BracketGatewayNext(trades, i) :
           trades' = OcaCancel([trades EXCEPT ![i].status = s, ![i].filled = IF s = "Filled" THEN trades[i].totalQuantity ELSE trades[i].filled, ![i].avgFillPrice = IF s = "Filled" THEN FillPrice ELSE 0], i, s)
    /\ UNCHANGED <<store, cache, now, passSnap, last, bracket, statusOf>>

\* the statuses GET /api/orders/brackets reports from the store
ReportedStatuses(st) == {get_status(b) : b \in get_bracket_orders(st)}

\* a Reconcile pass, then the brackets read from the store; path keeps the
\* statuses reported for the bracket, without repeats
BracketReconcile ==
    /\ bracket.pc = "placed"
    /\ LET live_orders == get_enhanced_open_orders(trades, TRUE)
           store2 == sync_pending_orders(store, live_orders)
       IN /\ store' = store2
          /\ passSnap' = live_orders
          /\ bracket' = [bracket EXCEPT !.path = IF ReportedStatuses(store2) = {} THEN bracket.path
                                                 ELSE LET s == CHOOSE x \in ReportedStatuses(store2) : TRUE
                                                      IN IF bracket.path # <<>> /\ bracket.path[Len(bracket.path)] = s THEN bracket.path ELSE Append(bracket.path, s)]
    /\ UNCHANGED <<trades, cache, now, last, statusOf>>

\* routes.py cancel_order on a member of the bracket
BracketCancel ==
    /\ bracket.pc = "placed"
    /\ bracket.cancels < MaxBracketCancels
    /\ \E order_id \in DOMAIN trades :
         LET r == cancel_order(trades, TRUE, order_id)
         IN /\ trades' = r.trades
            /\ store' = IF r.success THEN update_order_status(store, order_id, "Cancelled", None, None) ELSE store
            /\ cache' = IF r.success THEN invalidate_pending_orders ELSE cache
    /\ bracket' = [bracket EXCEPT !.cancels = bracket.cancels + 1]
    /\ UNCHANGED <<now, passSnap, last, statusOf>>

\* the member orders get_status is applied to: main and both exit legs, an
\* exit leg possibly missing
StatusLeg(order_id, parent_id, status, filled_quantity) ==
    PendingOrder(order_id, OrderQty, "LMT", None, None, None, None, status, filled_quantity, OrderQty - filled_quantity, None, parent_id, None, None)

StatusInputs ==
    {BracketOrder(StatusLeg(1, None, ms, mf), pt, sl, 1) :
       ms \in IBKR_ORDER_STATUSES, mf \in 0..OrderQty,
       pt \in {NoOrder} \cup {StatusLeg(2, 1, s, 0) : s \in IBKR_ORDER_STATUSES},
       sl \in {NoOrder} \cup {StatusLeg(3, 1, s, 0) : s \in IBKR_ORDER_STATUSES}}

InitBracketStatus ==
    /\ InitOrders /\ InitRisk /\ InitLink /\ InitLater
    /\ bracket = NoBracket
    /\ statusOf \in [bracket : StatusInputs, status : {""}]

\* bracket.get_status()
GetStatus ==
    /\ statusOf.bracket # NoOrder
    /\ statusOf.status = ""
    /\ statusOf' = [statusOf EXCEPT !.status = get_status(statusOf.bracket)]
    /\ UNCHANGED <<bracket>>

NextBracketStatus ==
    \/ (GetStatus /\ UNCHANGED orderVars /\ UNCHANGED riskVars /\ UNCHANGED linkVars /\ UNCHANGED laterVars /\ UNCHANGED sessVars)

SpecBracketStatus == InitBracketStatus /\ [][NextBracketStatus]_vars

NextBracket ==
    \/ (PlaceBracket /\ UNCHANGED workflowVars /\ UNCHANGED riskVars /\ UNCHANGED linkVars /\ UNCHANGED laterVars /\ UNCHANGED sessVars)
    \/ (PlaceBracketNext /\ UNCHANGED workflowVars /\ UNCHANGED riskVars /\ UNCHANGED linkVars /\ UNCHANGED laterVars /\ UNCHANGED sessVars)
    \/ (BracketGatewayProgress /\ UNCHANGED workflowVars /\ UNCHANGED riskVars /\ UNCHANGED linkVars /\ UNCHANGED laterVars /\ UNCHANGED sessVars)
    \/ (BracketReconcile /\ UNCHANGED workflowVars /\ UNCHANGED riskVars /\ UNCHANGED linkVars /\ UNCHANGED laterVars /\ UNCHANGED sessVars)
    \/ (BracketCancel /\ UNCHANGED workflowVars /\ UNCHANGED riskVars /\ UNCHANGED linkVars /\ UNCHANGED laterVars /\ UNCHANGED sessVars)

SpecBracket == Init /\ [][NextBracket]_vars

---------------------------------------------------------------------------
\* core/cache.py, the bracket entry, and the read and write paths of
\* api/routes.py around both cache entries

BRACKET_ORDERS_TTL == 60
MaxCacheTime == 90
ModifiedPrices == {5100}

\* the dict cache_bracket_orders builds for one BracketOrder
bracket_to_dict(b) ==
    [main_order |-> to_dict(b.main_order),
     profit_target |-> IF b.profit_target # NoOrder THEN to_dict(b.profit_target) ELSE NoOrder,
     stop_loss |-> IF b.stop_loss # NoOrder THEN to_dict(b.stop_loss) ELSE NoOrder,
     oca_group |-> b.oca_group]

\* the BracketOrder get_cached_bracket_orders rebuilds with PendingOrder(**dict)
bracket_from_dict(d) ==
    BracketOrder(from_dict(d.main_order),
                 IF d.profit_target # NoOrder THEN from_dict(d.profit_target) ELSE NoOrder,
                 IF d.stop_loss # NoOrder THEN from_dict(d.stop_loss) ELSE NoOrder,
                 d.oca_group)

cache_bracket_orders(brackets, t) ==
    [brackets |-> {bracket_to_dict(b) : b \in brackets}, timestamp |-> t]

get_cached_bracket_orders_NoExpiry(c, t) ==
    IF c # NoBracketCache THEN {bracket_from_dict(d) : d \in c.brackets} ELSE {}

\* Cache.get_cached_bracket_orders, the in-memory entry: {} is the miss
get_cached_bracket_orders(c, t) ==
    IF c # NoBracketCache /\ t - c.timestamp < BRACKET_ORDERS_TTL
    THEN {bracket_from_dict(d) : d \in c.brackets}
    ELSE {}

\* Broker.modify_order with limit_price=...: searches ib.openTrades()
modify_order(tr, up, order_id, limit_price) ==
    IF ~up THEN [trades |-> tr, success |-> FALSE]
    ELSE IF order_id \in Range(openTrades(tr))
         THEN [trades |-> [tr EXCEPT ![order_id].lmtPrice = limit_price], success |-> TRUE]
         ELSE [trades |-> tr, success |-> FALSE]

\* whether an exception of the store write leaves the function
sync_pending_orders_raises(write_failed) == write_failed

\* Broker.sync_order_statuses: except Exception logs and returns
sync_order_statuses_raises(write_failed) == FALSE

\* rows of an OCA group that reached the store from the gateway with the
\* label on every leg (a group placed from the trading workstation): the
\* parent filled, the stop cancelled by the gateway
StoredGroup ==
    [i \in {8, 9} |->
       IF i = 8
       THEN PendingOrder(8, OrderQty, "LMT", 5000, None, None, None, "Filled", OrderQty, 0, FillPrice, None, 7001, None)
       ELSE PendingOrder(9, OrderQty, "STP", None, 4500, None, None, "Cancelled", 0, OrderQty, None, 8, 7001, None)]

InitOrderCache ==
    /\ trades = <<>>
    /\ store = StoredGroup
    /\ cache = NoCache
    /\ now = 0
    /\ passSnap = <<>>
    /\ strategyStatus = "PENDING_USER_APPROVAL"
    /\ tradeTable = <<>>
    /\ last = [op |-> "init"]
    /\ InitRisk /\ InitLink /\ InitBracket /\ InitLater

\* the clock advances
CacheTick ==
    /\ now + TickStep <= MaxCacheTime
    /\ now' = now + TickStep
    /\ last' = [op |-> "tick"]
    /\ UNCHANGED <<trades, store, cache, passSnap, bcache>>

\* routes.py get_bracket_orders: cached brackets, or the store's brackets,
\* which are then cached.  A bracket rebuilt from the cache keeps
\* submitted_at as the ISO string, so the to_dict of the answer raises and
\* the route answers 500
GetBracketOrders ==
    LET cached_brackets == get_cached_bracket_orders(bcache, now)
        age == IF bcache = NoBracketCache THEN None ELSE now - bcache.timestamp
    IN IF cached_brackets # {}
       THEN /\ last' = [op |-> "get_bracket_orders", source |-> "cache", brackets |-> cached_brackets, age |-> age, status |-> 500]
            /\ UNCHANGED <<trades, store, cache, now, passSnap, bcache>>
       ELSE LET brackets == get_bracket_orders(store)
            IN /\ bcache' = cache_bracket_orders(brackets, now)
               /\ last' = [op |-> "get_bracket_orders", source |-> "database", brackets |-> brackets, age |-> age, status |-> 200]
               /\ UNCHANGED <<trades, store, cache, now, passSnap>>

\* routes.py cancel_order with both entries of the cache
CancelOrderRoute ==
    /\ CancelOrder
    /\ bcache' = IF last'.success THEN NoBracketCache ELSE bcache

\* Broker.modify_order called directly; no route calls it
ModifyOrder ==
    \E order_id \in OrderIds, linkUp \in BOOLEAN, limit_price \in ModifiedPrices :
      LET r == modify_order(trades, linkUp, order_id, limit_price)
      IN /\ trades' = r.trades
         /\ last' = [op |-> "modify_order", order_id |-> order_id, success |-> r.success]
         /\ UNCHANGED <<store, cache, now, passSnap, bcache>>

\* routes.py get_pending_orders when the first write of
\* Storage.sync_pending_orders fails: the exception reaches the route's
\* except clause
GetPendingOrdersWriteFails ==
    \E force_refresh \in BOOLEAN, linkUp \in BOOLEAN :
      LET cached_orders == get_cached_pending_orders(cache, now)
          live_orders == get_enhanced_open_orders(trades, linkUp)
          raised == sync_pending_orders_raises(TRUE)
      IN /\ force_refresh \/ cached_orders = <<>>
         /\ sync_pending_orders(store, live_orders) # store
         /\ last' = [op |-> "get_pending_orders", source |-> IF raised THEN "error" ELSE "live_ibkr", orders |-> IF raised THEN <<>> ELSE live_orders, repeat |-> FALSE, once |-> None, write_failed |-> TRUE, raised |-> raised, status |-> IF raised THEN 500 ELSE 200]
         /\ UNCHANGED <<trades, store, cache, now, passSnap, bcache>>

\* Broker.sync_order_statuses when its first update_order_status fails
SyncOrderStatusesWriteFails ==
    \E linkUp \in BOOLEAN :
      /\ sync_order_statuses(store, get_enhanced_open_orders(trades, linkUp)) # store
      /\ last' = [op |-> "sync_order_statuses", write_failed |-> TRUE, raised |-> sync_order_statuses_raises(TRUE)]
      /\ UNCHANGED <<trades, store, cache, now, passSnap, bcache>>

OrderCacheRest == UNCHANGED workflowVars /\ UNCHANGED riskVars /\ UNCHANGED linkVars /\ UNCHANGED bracketVars /\ UNCHANGED <<health, passes>> /\ UNCHANGED sessVars

NextOrderCache ==
    \/ (CacheTick /\ OrderCacheRest)
    \/ (GatewayProgress /\ OrderCacheRest /\ UNCHANGED bcache)
    \/ (PlaceOrder /\ OrderCacheRest /\ UNCHANGED bcache)
    \/ (GetPendingOrders /\ OrderCacheRest /\ UNCHANGED bcache)
    \/ (GetPendingOrdersWriteFails /\ OrderCacheRest)
    \/ (GetBracketOrders /\ OrderCacheRest)
    \/ (CancelOrderRoute /\ OrderCacheRest)
    \/ (ModifyOrder /\ OrderCacheRest)
    \/ (SyncOrderStatuses /\ OrderCacheRest /\ UNCHANGED bcache)
    \/ (SyncOrderStatusesWriteFails /\ OrderCacheRest)

SpecOrderCache == InitOrderCache /\ [][NextOrderCache]_vars

\* the same group as the store holds it while its stop is still working
\* at the last pass; the gateway has since filled the stop, which has left
\* the open orders
WorkingGroup == [StoredGroup EXCEPT ![9].status = "Submitted"]

InitBracketCache ==
    /\ trades = <<>>
    /\ store = WorkingGroup
    /\ cache = NoCache
    /\ now = 0
    /\ passSnap = <<>>
    /\ strategyStatus = "PENDING_USER_APPROVAL"
    /\ tradeTable = <<>>
    /\ last = [op |-> "init"]
    /\ InitRisk /\ InitLink /\ InitBracket /\ InitLater

NextBracketCache ==
    \/ (CacheTick /\ OrderCacheRest)
    \/ (GatewayProgress /\ OrderCacheRest /\ UNCHANGED bcache)
    \/ (PlaceOrder /\ OrderCacheRest /\ UNCHANGED bcache)
    \/ (GetPendingOrders /\ OrderCacheRest /\ UNCHANGED bcache)
    \/ (GetBracketOrders /\ OrderCacheRest)

SpecBracketCache == InitBracketCache /\ [][NextBracketCache]_vars

---------------------------------------------------------------------------
\* core/broker.py, the request counters behind get_connection_health

MaxRequests == 3

Operations ==
    {"place_order", "cancel_order", "place_bracket_order", "place_trailing_stop_order", "modify_order",
     "get_open_orders", "get_enhanced_open_orders", "get_positions", "get_portfolio"}

\* operations that raise "Not connected" inside their try block
RaiseInsideTry == {"place_bracket_order", "place_trailing_stop_order", "modify_order"}

\* operations without any tracking call
Untracked == {"place_order", "cancel_order"}

track_request_success(h) == [h EXCEPT !.total_request_count = @ + 1]

track_request_failure(h) ==
    [h EXCEPT !.failed_request_count = @ + 1, !.total_request_count = @ + 1]

\* the counters after one call of op; gateway_raises: the gateway call
\* made by a connected broker raised
tracked(h, op, connected, gateway_raises) ==
    IF op \in Untracked THEN h
    ELSE IF ~connected
         THEN IF op \in RaiseInsideTry THEN track_request_failure(h) ELSE h
    ELSE IF gateway_raises THEN track_request_failure(h)
    ELSE track_request_success(h)

\* Broker.get_connection_health, success_rate in percent
success_rate(h) ==
    IF h.total_request_count > 0
    THEN ((h.total_request_count - h.failed_request_count) * 100) \div h.total_request_count
    ELSE 0

\* one call of a Broker operation
BrokerCall(op) ==
    \E connected \in BOOLEAN, gateway_raises \in BOOLEAN :
      LET failed == ~connected \/ gateway_raises
          h == tracked(health, op, connected, gateway_raises)
      IN /\ health.calls < MaxRequests
         /\ health' = [h EXCEPT !.calls = @ + 1, !.failures = @ + (IF failed THEN 1 ELSE 0)]
         /\ last' = [op |-> "broker_call", operation |-> op, connected |-> connected, failed |-> failed]
         /\ UNCHANGED <<trades, store, cache, now, passSnap, bcache, passes>>

GetConnectionHealth ==
    /\ last' = [op |-> "get_connection_health", success_rate |-> success_rate(health), total_requests |-> health.total_request_count, failed_requests |-> health.failed_request_count]
    /\ UNCHANGED <<trades, store, cache, now, passSnap, bcache, passes, health>>

HealthRest == UNCHANGED workflowVars /\ UNCHANGED riskVars /\ UNCHANGED linkVars /\ UNCHANGED bracketVars /\ UNCHANGED sessVars

NextHealth ==
    \/ (\E op \in Operations : BrokerCall(op) /\ HealthRest)
    \/ (GetConnectionHealth /\ HealthRest)

SpecHealth == Init /\ [][NextHealth]_vars

---------------------------------------------------------------------------
\* core/storage.py: Storage.sync_pending_orders run by several threads on
\* the one connection Storage.__init__ opens with check_same_thread=False.
\* A step is one SQL statement; what one pass has written the other reads,
\* committed or not, because both use the same connection

NumPasses == 2
MaxSyncOrders == 2

SyncIds == 1..MaxSyncOrders
Passes == 1..NumPasses

\* a row written by an earlier pass, at an earlier limit price
StoredRow(i, status) ==
    PendingOrder(i, OrderQty, "LMT", 4900, None, None, None, status, 0, OrderQty, None, None, None, None)

\* an order of the live snapshot
LiveRow(i, status) ==
    PendingOrder(i, OrderQty, "LMT", 5000, None, None, None, status, 0, OrderQty, None, None, None, None)

StartStores ==
    UNION {{[i \in D |-> StoredRow(i, f[i])] : f \in [D -> {"Submitted", "Filled", "Inactive"}]} : D \in SUBSET SyncIds}

Snapshots ==
    UNION {{LET ids == SortedSeq(D) IN [k \in 1..Len(ids) |-> LiveRow(ids[k], f[ids[k]])] : f \in [D -> {"Submitted", "PreSubmitted"}]} : D \in SUBSET SyncIds}

ActiveIds_All(st) == DOMAIN st

\* the SELECT of the active order ids
ActiveIds(st) == {i \in DOMAIN st : st[i].status \in SyncOpenStatuses}

\* the UPDATE ... SET status = 'Filled' of one vanished order
MarkFilled(st, order_id) ==
    IF order_id \in DOMAIN st /\ st[order_id].status \notin {"Filled", "Cancelled"}
    THEN [st EXCEPT ![order_id].status = "Filled"]
    ELSE st

\* where a pass stands after its SELECT or after a statement of a loop
AfterStatement(missing_ids, next, live_orders) ==
    IF missing_ids # {} THEN "update"
    ELSE IF next <= Len(live_orders) THEN "insert"
    ELSE "commit"

StartPass == [pc |-> "select", missing_ids |-> {}, next |-> 1]

InitConcurrentSync ==
    /\ trades = <<>>
    /\ store \in StartStores
    /\ cache = NoCache
    /\ now = 0
    /\ passSnap \in Snapshots
    /\ strategyStatus = "PENDING_USER_APPROVAL"
    /\ tradeTable = <<>>
    /\ last = [op |-> "init"]
    /\ InitRisk /\ InitLink /\ InitBracket
    /\ bcache = NoBracketCache /\ health = NoRequests /\ sess = NoSession
    /\ passes = [before |-> store, mixed |-> FALSE, pass |-> [p \in Passes |-> StartPass]]

\* another pass stands between its SELECT and its commit
OtherMidway(p) == \E q \in Passes \ {p} : passes.pass[q].pc \in {"update", "insert", "commit"}

\* the SELECT and the two set computations that follow it
SyncSelect(p) ==
    /\ passes.pass[p].pc = "select"
    /\ LET db_order_ids == ActiveIds(store)
           live_order_ids == {passSnap[k].order_id : k \in DOMAIN passSnap}
           missing_ids == db_order_ids \ live_order_ids
       IN passes' = [passes EXCEPT !.pass[p].missing_ids = missing_ids,
                                   !.pass[p].pc = AfterStatement(missing_ids, 1, passSnap),
                                   !.mixed = @ \/ OtherMidway(p)]
    /\ UNCHANGED <<trades, store, cache, now, passSnap, last, bcache, health>>

\* one UPDATE of the loop over missing_ids, a set, in any order
SyncUpdate(p) ==
    /\ passes.pass[p].pc = "update"
    /\ \E order_id \in passes.pass[p].missing_ids :
         LET rest == passes.pass[p].missing_ids \ {order_id}
         IN /\ store' = MarkFilled(store, order_id)
            /\ passes' = [passes EXCEPT !.pass[p].missing_ids = rest,
                                        !.pass[p].pc = AfterStatement(rest, passes.pass[p].next, passSnap),
                                        !.mixed = @ \/ OtherMidway(p)]
    /\ UNCHANGED <<trades, cache, now, passSnap, last, bcache, health>>

\* one INSERT OR REPLACE of the loop over live_orders
SyncInsert(p) ==
    /\ passes.pass[p].pc = "insert"
    /\ LET next == passes.pass[p].next
       IN /\ store' = Upsert(store, passSnap[next])
          /\ passes' = [passes EXCEPT !.pass[p].next = next + 1,
                                      !.pass[p].pc = AfterStatement({}, next + 1, passSnap),
                                      !.mixed = @ \/ OtherMidway(p)]
    /\ UNCHANGED <<trades, cache, now, passSnap, last, bcache, health>>

\* conn.commit()
SyncCommit(p) ==
    /\ passes.pass[p].pc = "commit"
    /\ passes' = [passes EXCEPT !.pass[p].pc = "done"]
    /\ UNCHANGED <<trades, store, cache, now, passSnap, last, bcache, health>>

SyncRest == UNCHANGED workflowVars /\ UNCHANGED riskVars /\ UNCHANGED linkVars /\ UNCHANGED bracketVars /\ UNCHANGED sessVars

NextConcurrentSync ==
    \/ (\E p \in Passes : SyncSelect(p) /\ SyncRest)
    \/ (\E p \in Passes : SyncUpdate(p) /\ SyncRest)
    \/ (\E p \in Passes : SyncInsert(p) /\ SyncRest)
    \/ (\E p \in Passes : SyncCommit(p) /\ SyncRest)

SpecConcurrentSync == InitConcurrentSync /\ [][NextConcurrentSync]_vars

---------------------------------------------------------------------------
\* core/session_manager.py over the in-memory session entries of
\* core/cache.py.  Time is in minutes; a message is its number in the
\* conversation, user and assistant taking turns

max_session_messages == 10
session_ttl_minutes == 30
MaxMessages == 12
MaxSessionTime == 60
SessionTickStep == 15

\* Cache.set_session_data, the in-memory entry
set_session_data(data, t, expire_minutes) == [data |-> data, expires |-> t + expire_minutes]

\* Cache.get_session_data as SessionManager._get_session_messages reads
\* it: the list, or [] for a missing or expired entry
get_session_messages(entry, t) ==
    IF entry # NoEntry /\ t < entry.expires THEN entry.data ELSE <<>>

\* the entry after Cache.get_session_data: an expired one is deleted
after_get_session_data(entry, t) ==
    IF entry # NoEntry /\ ~(t < entry.expires) THEN NoEntry ELSE entry

SessionMessage(i, t) ==
    [timestamp |-> t, role |-> IF i % 2 = 1 THEN "user" ELSE "assistant", message |-> i]

Trim_Oldest(messages) ==
    IF Len(messages) > max_session_messages THEN SubSeq(messages, 1, max_session_messages) ELSE messages

\* messages[-self.max_session_messages:] when the list is too long
Trim(messages) ==
    IF Len(messages) > max_session_messages
    THEN SubSeq(messages, Len(messages) - max_session_messages + 1, Len(messages))
    ELSE messages

\* SessionManager.add_message: the entry of "<id>:messages" after the call
add_message(entry, t, m) ==
    set_session_data(Trim(Append(get_session_messages(entry, t), m)), t, session_ttl_minutes)

InitSession == Init

\* the clock advances
SessionTick ==
    /\ now + SessionTickStep <= MaxSessionTime
    /\ now' = now + SessionTickStep
    /\ last' = [op |-> "tick"]
    /\ UNCHANGED sess

AddMessage ==
    /\ Len(sess.added) < MaxMessages
    /\ LET m == SessionMessage(Len(sess.added) + 1, now)
       IN sess' = [entry |-> add_message(sess.entry, now, m), added |-> Append(sess.added, m)]
    /\ last' = [op |-> "add_message"]
    /\ UNCHANGED now

\* SessionManager.get_context, its current_messages
GetContext ==
    /\ last' = [op |-> "get_context", current_messages |-> get_session_messages(sess.entry, now)]
    /\ sess' = [sess EXCEPT !.entry = after_get_session_data(sess.entry, now)]
    /\ UNCHANGED now

SessionRest == UNCHANGED <<trades, store, cache, passSnap>> /\ UNCHANGED workflowVars /\ UNCHANGED riskVars /\ UNCHANGED linkVars /\ UNCHANGED bracketVars /\ UNCHANGED laterVars

NextSessionMemory ==
    \/ (SessionTick /\ SessionRest)
    \/ (AddMessage /\ SessionRest)
    \/ (GetContext /\ SessionRest)

SpecSessionMemory == InitSession /\ [][NextSessionMemory]_vars

---------------------------------------------------------------------------
\* api/server.py confirm_strategy called again for a stored strategy of one
\* limit order.  open_positions is the number of positions in the
\* portfolio broker.get_portfolio returns to the handler

MaxReconfirmTrades == 2

PositionCounts == {0, max_positions}

ReconfirmRequests ==
    {req \in ConfirmRequests : req.confirmed /\ req.strategy_id = StrategyId /\ req.orders = <<RawOrder("LMT", OrderQty, 5000, None, None, None)>>}

Reconfirm ==
    \E req \in ReconfirmRequests, open_positions \in PositionCounts :
      \E r \in {confirm_strategy(req.strategy_id, req.confirmed, req.orders, req.up1, req.up2, req.total_value)} :
         /\ Len(r.trades) <= MaxReconfirmTrades
         /\ trades' = r.trades
         /\ tradeTable' = r.tradeTable
         /\ strategyStatus' = r.strategyStatus
         /\ last' = [open_positions |-> open_positions] @@ r.last
         /\ UNCHANGED <<store, cache, now, passSnap>>

NextReconfirm ==
    \/ (Reconfirm /\ UNCHANGED riskVars /\ UNCHANGED linkVars /\ UNCHANGED restVars)
    \/ (GatewayProgress /\ UNCHANGED workflowVars /\ UNCHANGED riskVars /\ UNCHANGED linkVars /\ UNCHANGED restVars)
    \/ (GetPendingOrders /\ UNCHANGED workflowVars /\ UNCHANGED riskVars /\ UNCHANGED linkVars /\ UNCHANGED restVars)

SpecReconfirm == Init /\ [][NextReconfirm]_vars

---------------------------------------------------------------------------
\* The origin link of a stored order: Storage.save_pending_order followed by
\* Reconcile passes

\* Storage.save_pending_order: a plain INSERT; order_id is UNIQUE, so a
\* second row under a stored id raises and the table keeps its rows
save_pending_order(st, o) ==
    IF o.order_id \in DOMAIN st THEN st ELSE Upsert(st, o)

\* the strategy_id values a saved order carries
OriginLinks == {None, StrategyId}

\* Storage.save_pending_order called with an order the gateway holds, linked
\* to the strategy it came from
SavePendingOrder ==
    \E i \in DOMAIN trades, strategy_id \in OriginLinks :
      LET order == [EnhancedOrder(i, trades[i]) EXCEPT !.strategy_id = strategy_id]
      IN /\ store' = save_pending_order(store, order)
         /\ last' = [op |-> "save_pending_order", order_id |-> i]
         /\ UNCHANGED <<trades, cache, now, passSnap>>

NextOriginLink ==
    \/ (PlaceOrder /\ UNCHANGED workflowVars /\ UNCHANGED riskVars /\ UNCHANGED linkVars /\ UNCHANGED restVars)
    \/ (SavePendingOrder /\ UNCHANGED workflowVars /\ UNCHANGED riskVars /\ UNCHANGED linkVars /\ UNCHANGED restVars)
    \/ (GatewayProgress /\ UNCHANGED workflowVars /\ UNCHANGED riskVars /\ UNCHANGED linkVars /\ UNCHANGED restVars)
    \/ (Tick /\ UNCHANGED workflowVars /\ UNCHANGED riskVars /\ UNCHANGED linkVars /\ UNCHANGED restVars)
    \/ (GetPendingOrders /\ UNCHANGED workflowVars /\ UNCHANGED riskVars /\ UNCHANGED linkVars /\ UNCHANGED restVars)

SpecOriginLink == Init /\ [][NextOriginLink]_vars

---------------------------------------------------------------------------
\* Properties of the Reconcile pass, the store and the cache

TerminalStatuses == {"Filled", "Cancelled", "Inactive"}

NonTerminalStatuses == {"PendingSubmit", "PreSubmitted", "Submitted", "PartiallyFilled"}

ReconcileRan == last.op = "get_pending_orders" /\ last.source = "live_ibkr"

CacheServed == last.op = "get_pending_orders" /\ last.source = "cache"

SnapshotIds(live) == {live[k].order_id : k \in DOMAIN live}

\* C1: Reconcile is idempotent: when the pass that just ran applied the same
\* live-order snapshot as the pass right before it, the store rows and the
\* cached order list are those the first of the two passes left.
ReconcileIdempotent ==
    (ReconcileRan /\ last.repeat) =>
        /\ store = last.once.store
        /\ cache.orders = last.once.orders

ReconcileTwiceWitness ==
    /\ ReconcileRan
    /\ last.repeat
    /\ DOMAIN store # {}

\* C2: after a Reconcile pass every stored order that was in a non-terminal
\* status before the pass and is absent from the snapshot has status Filled.
MissingOpenOrdersFilled ==
    [][(last'.op = "get_pending_orders" /\ last'.source = "live_ibkr") =>
          \A i \in DOMAIN store :
              (store[i].status \in NonTerminalStatuses
                  /\ i \notin SnapshotIds(last'.orders))
              => store'[i].status = "Filled"]_vars

SameFills(a, b) ==
    /\ a.status = b.status
    /\ a.filled_quantity = b.filled_quantity
    /\ a.remaining_quantity = b.remaining_quantity
    /\ a.avg_fill_price = b.avg_fill_price
    /\ a.limit_price = b.limit_price
    /\ a.stop_price = b.stop_price
    /\ a.trail_amount = b.trail_amount
    /\ a.trail_percent = b.trail_percent

\* C3: after a Reconcile pass the stored row of every order of the snapshot
\* carries the snapshot's status, fills and prices, and a cache read within
\* the TTL serves the values of the snapshot of the latest pass.
StoreAndCacheReflectSnapshot ==
    /\ ReconcileRan =>
          /\ passSnap = last.orders
          /\ \A k \in DOMAIN last.orders :
                /\ last.orders[k].order_id \in DOMAIN store
                /\ SameFills(store[last.orders[k].order_id], last.orders[k])
    /\ CacheServed =>
          /\ now - cache.timestamp < PENDING_ORDERS_TTL
          /\ Len(last.orders) = Len(passSnap)
          /\ \A k \in DOMAIN passSnap :
                /\ last.orders[k].order_id = passSnap[k].order_id
                /\ SameFills(last.orders[k], passSnap[k])

CacheHitAfterFillWitness ==
    /\ CacheServed
    /\ \E k \in DOMAIN last.orders :
          /\ last.orders[k].status = "PartiallyFilled"
          /\ last.orders[k].filled_quantity > 0
          /\ last.orders[k].order_id \in DOMAIN store
          /\ SameFills(store[last.orders[k].order_id], last.orders[k])

\* the order state machine: b is a or comes after a
StatusFollows(a, b) ==
    \/ a = b
    \/ a \in NonTerminalStatuses /\ b \in TerminalStatuses
    \/ a = "PendingSubmit" /\ b \in {"PreSubmitted", "Submitted", "PartiallyFilled"}
    \/ a = "PreSubmitted" /\ b \in {"Submitted", "PartiallyFilled"}
    \/ a = "Submitted" /\ b = "PartiallyFilled"
    \/ a = "PartiallyFilled" /\ b = "Submitted"

\* C4: a terminal status of a stored order is never changed again, and every
\* status change of a stored order follows the order state machine.
TerminalStatusesAbsorbing ==
    [][\A i \in DOMAIN store :
          /\ i \in DOMAIN store'
          /\ StatusFollows(store[i].status, store'[i].status)
          /\ store[i].status \in TerminalStatuses
                => store'[i].status = store[i].status]_vars

\* C5: every order of the store and of the cache that has left PendingSubmit
\* has filled_quantity + remaining_quantity = quantity.
FillsAddUp ==
    /\ \A i \in DOMAIN store :
          store[i].status # "PendingSubmit" =>
              store[i].filled_quantity + store[i].remaining_quantity
                  = store[i].quantity
    /\ \A k \in DOMAIN cache.orders :
          cache.orders[k].status # "PendingSubmit" =>
              cache.orders[k].filled_quantity + cache.orders[k].remaining_quantity
                  = cache.orders[k].quantity

---------------------------------------------------------------------------
\* Properties of the confirmation workflow

ConfirmRan == last.op = "confirm_strategy"

CanonicalType(o) == order_type_map(o.order_type)

LacksRequiredField(o) ==
    \/ CanonicalType(o) \in {"LMT", "STP LMT"} /\ o.limit_price = None
    \/ CanonicalType(o) \in {"STP", "STP LMT"} /\ o.stop_price = None
    \/ CanonicalType(o) = "TRAIL" /\ o.trail_amount = None /\ o.trail_percent = None

\* C6: in every state, every order the confirmation workflow transmitted to
\* the gateway has a row in the order store under its gateway order id,
\* linked to its strategy: the row is there from the submission on, before
\* any Reconcile pass, and no handler deletes it.
TransmittedOrdersStored ==
    \A i \in DOMAIN trades :
        /\ i \in DOMAIN store
        /\ store[i].order_id = i
        /\ store[i].strategy_id = StrategyId

\* C7: a strategy with an order that lacks a field its type requires is
\* rejected before any call to the broker: no trade is added at the gateway.
ValidationBeforeGateway ==
    [][(last'.op = "confirm_strategy"
           /\ \E k \in DOMAIN last'.orders : LacksRequiredField(last'.orders[k]))
       => /\ trades' = trades
          /\ last'.calls = <<>>
          /\ last'.executed = <<>>
          /\ last'.code = 500]_vars

RejectedSecondOrderWitness ==
    /\ ConfirmRan
    /\ Len(last.orders) = 2
    /\ validate_order(last.orders[1]).ok
    /\ LacksRequiredField(last.orders[2])
    /\ last.code = 500

ExactlyOneTrail(amount, percent) == (amount # None) # (percent # None)

\* C8: a TRAIL order passes validation and is transmitted if and only if
\* exactly one of trail_amount and trail_percent is set, and
\* validate_ibkr_order_type accepts a TRAIL parameter set on the same terms.
TrailExactlyOneMode ==
    /\ ConfirmRan =>
          /\ (\E k \in DOMAIN last.orders :
                 /\ CanonicalType(last.orders[k]) = "TRAIL"
                 /\ ~ExactlyOneTrail(last.orders[k].trail_amount,
                                     last.orders[k].trail_percent))
             => last.code = 500 /\ last.transmitted = {}
          /\ \A i \in last.transmitted :
                trades[i].orderType = "TRAIL" =>
                    ExactlyOneTrail(trades[i].trailStopPrice,
                                    trades[i].trailingPercent)
    /\ last.op = "validate_ibkr_order_type" =>
          (last.valid <=> Cardinality(last.order_params) = 1)

\* C9: when evaluate returns approved = false for an order of the strategy,
\* no order is transmitted and the answer carries the warnings of every
\* order that was not approved.
RiskRejectionIsHardStop ==
    [][(last'.op = "confirm_strategy"
           /\ \E k \in DOMAIN last'.risk : ~last'.risk[k].approved)
       => /\ trades' = trades
          /\ last'.code = 400
          /\ last'.executed = <<>>
          /\ \A k \in DOMAIN last'.risk :
                ~last'.risk[k].approved =>
                    /\ last'.risk[k].warnings # <<>>
                    /\ Range(last'.risk[k].warnings) \subseteq Range(last'.warnings)]_vars

RiskRejectedWitness ==
    /\ ConfirmRan
    /\ Len(last.risk) = 2
    /\ ~last.risk[1].approved
    /\ last.risk[2].approved
    /\ last.code = 400
    /\ last.warnings # <<>>

---------------------------------------------------------------------------
\* Properties of the risk gate

Evaluated == riskOut # <<>>

\* quantity x price exceeds max_position_pct of the total value
SizeExceeded(trade, total_value) ==
    100 * trade.quantity * trade.price > max_position_pct * total_value

\* quantity x price divided by the total value exceeds max_position_pct
FractionExceeded(trade, total_value) ==
    \/ total_value > 0
          /\ 100 * trade.quantity * trade.price > max_position_pct * total_value
    \/ total_value < 0
          /\ 100 * trade.quantity * trade.price < max_position_pct * total_value

CountExceeded(portfolio) == portfolio.positions >= max_positions

HasWarning(r, text) == \E k \in DOMAIN r.warnings : r.warnings[k].text = text

---------------------------------------------------------------------------
\* Properties of calculate_safe_size

SafeSized == safeOut # <<>>

FitsLimit(q, trade, portfolio) ==
    100 * q * trade.price <= max_position_pct * portfolio.total_value

---------------------------------------------------------------------------
\* Properties of the connection pool

Holding(c) == caller[c].pc = "holding"

Holders == {c \in DOMAIN caller : Holding(c)}

NoDuplicates(list) == \A i, j \in DOMAIN list : list[i] = list[j] => i = j

\* C12: the pool never holds more than max_connections connections,
\* available and checked out together, and never more than max_connections
\* callers hold a connection at the same time.
PoolNeverGrows ==
    /\ Len(pool.available) + Len(pool.in_use) <= max_connections
    /\ Len(pool.connections) <= max_connections
    /\ Cardinality(Holders) <= max_connections

\* C13: a caller that waits while every connection is checked out ends with
\* TimeoutError when nothing is released in time and never waits forever;
\* once all max_connections + 1 callers of the rush have their answer,
\* exactly max_connections hold a connection and one has the timeout error.
CheckoutTimesOut ==
    /\ []((\A c \in DOMAIN caller : caller[c].pc \in {"holding", "timeout"})
            => /\ Cardinality(Holders) = max_connections
               /\ Cardinality({c \in DOMAIN caller : caller[c].pc = "timeout"}) = 1)
    /\ \A c \in RushCallers :
          (caller[c].pc = "waiting") ~> (caller[c].pc \in {"holding", "timeout"})
    /\ \A c \in RushCallers :
          (caller[c].pc = "waiting" /\ pool.available = <<>>) ~> (caller[c].pc = "timeout")

RushResolvedWitness ==
    /\ Cardinality(Holders) = max_connections
    /\ \E c \in DOMAIN caller : caller[c].pc = "timeout"
    /\ pool.available = <<>>
    /\ Len(pool.in_use) = max_connections

\* C14: a connection appears at most once across the available queue and
\* the in_use list, no two callers hold the same connection, and a
\* connection a caller holds is not available to another one.
ConnectionNeverShared ==
    /\ NoDuplicates(pool.available \o pool.in_use)
    /\ \A c, d \in Holders : caller[c].conn = caller[d].conn => c = d
    /\ \A c \in Holders : caller[c].conn \notin Range(pool.available)

TwoHoldersWitness ==
    /\ Cardinality(Holders) >= 2
    /\ pool.available # <<>>
    /\ env.drops = 1

Quiescent == \A c \in DOMAIN caller : caller[c].pc \in {"idle", "holding", "timeout", "error"}

\* C16: whenever no pool operation is in progress, every connection of
\* pool.connections is in the available queue or checked out.
NoSlotLost ==
    Quiescent =>
        \A k \in Range(pool.connections) :
            k \in Range(pool.available) \cup Range(pool.in_use)

---------------------------------------------------------------------------
\* Properties of ConnectionManager.connect and Broker.connect

Backoff(k) == IF 2 ^ k > 30 THEN 30 ELSE 2 ^ k

Returns(t) == task[t].pc # "returned" /\ task'[t].pc = "returned"

RetryUsesNewIdentity ==
    /\ \A t \in Tasks : task[t].pc = "connecting" /\ task[t].failed # None => task[t].using # task[t].failed
    /\ brk.pc = "opening" /\ brk.failed # None => brk.client_id # brk.failed

\* C19: Broker.connect sets connection_ready only when reqCurrentTime has
\* returned on the link just opened, and connected only after that; a
\* failed reqCurrentTime closes the link and the next attempt generates its
\* client id; connect() makes at most connect_attempts attempts and returns
\* False only after the last one; called while connected it returns True
\* and touches nothing else.
BrokerConnectContract ==
    /\ [][brk'.connection_ready /\ ~brk.connection_ready => brk.pc = "verifying" /\ brk.link = "open" /\ brk'.link = "open"]_vars
    /\ [][brk'.connected /\ ~brk.connected => brk.pc = "setup" /\ brk.connection_ready /\ brk.link = "open"]_vars
    /\ [][brk.pc = "verifying" /\ brk'.pc # "setup" /\ brk' # brk => brk'.link = "closed" /\ (brk'.pc = "opening" => brk'.generated /\ brk'.client_id \in BrokerClientIds) /\ (brk'.pc = "returned" => brk'.client_id = None)]_vars
    /\ [](brk.attempt <= connect_attempts)
    /\ [](brk.pc = "returned" /\ ~brk.result => brk.attempt = connect_attempts)
    /\ [][brk.pc \in {"idle", "returned"} /\ brk.connected /\ brk'.op = "connect" => brk' = [brk EXCEPT !.pc = "returned", !.op = "connect", !.result = TRUE]]_vars

\* the last attempt starts with a generated id after reqCurrentTime failed
VerifyFailedRetryWitness ==
    /\ brk.op = "verify_failed"
    /\ brk.pc = "opening"
    /\ brk.generated
    /\ brk.link = "closed"
    /\ brk.attempt = connect_attempts

\* C20: _on_error leaves the informational codes without any effect, starts
\* a reconnection on the session-fatal codes and raises every other error
\* to the caller of the failed operation.
ErrorsHandledThreeWays ==
    onerr.code # None =>
        IF onerr.code \in {2104, 2106, 2158}
        THEN ~onerr.logged /\ ~onerr.reconnect /\ ~onerr.raised
        ELSE IF onerr.code \in {502, 504, 1100, 1102}
             THEN onerr.reconnect /\ task["handler"].pc = "spawned"
             ELSE onerr.raised /\ ~onerr.reconnect

---------------------------------------------------------------------------
\* Properties of bracket orders

Terminal == {"Filled", "Cancelled", "Inactive", "ApiCancelled"}

\* C21: place_bracket_order sends parent, profit target and stop loss in
\* this order under increasing ids; both children carry the parent's id;
\* transmit is off on the parent and the profit target and on only for the
\* stop loss, the last one sent; the gateway releases no order of the group
\* before all three have been sent.
BracketSentAsOneGroup ==
    bracket.parent_id # None =>
        LET p == bracket.parent_id
        IN /\ trades[p].orderType = "LMT" /\ trades[p].parentId = 0 /\ ~trades[p].transmit
           /\ p + 1 \in DOMAIN trades => trades[p + 1].orderType = "LMT" /\ trades[p + 1].lmtPrice # trades[p].lmtPrice /\ trades[p + 1].parentId = p /\ ~trades[p + 1].transmit
           /\ p + 2 \in DOMAIN trades => trades[p + 2].orderType = "STP" /\ trades[p + 2].parentId = p /\ trades[p + 2].transmit
           /\ bracket.pc = "placing" => \A i \in DOMAIN trades : ~Released(trades, i) /\ trades[i].status = "PendingSubmit"
           /\ bracket.pc = "placed" => Len(trades) = p + 2

\* the whole group is at the gateway and the parent is working
BracketReleasedWitness ==
    /\ bracket.pc = "placed"
    /\ bracket.cancels = 0
    /\ trades[bracket.parent_id].status = "Submitted"
    /\ trades[bracket.parent_id + 2].status = "PreSubmitted"

\* C22: get_status returns the main order's status while the main order is
\* unfilled, 'Bracket Closed' when the main order is filled and an exit leg
\* is Filled, and 'Managing Position' when the main order is filled, no
\* exit leg is Filled and an exit leg has a status that is not terminal.
StatusFollowsPrecedence ==
    statusOf.status # "" =>
        LET b == statusOf.bracket
            legs == {b.profit_target, b.stop_loss} \ {NoOrder}
        IN IF b.main_order.filled_quantity = 0 THEN statusOf.status = b.main_order.status
           ELSE IF \E o \in legs : o.status = "Filled" THEN statusOf.status = "Bracket Closed"
           ELSE (\E o \in legs : o.status \notin Terminal) => statusOf.status = "Managing Position"

\* C23: once the three orders of a placed bracket are in the store,
\* get_bracket_orders returns one bracket for them with main order, profit
\* target and stop loss.
PlacedBracketIsGrouped ==
    LET p == bracket.parent_id
    IN bracket.pc = "placed" /\ {p, p + 1, p + 2} \subseteq DOMAIN store =>
         \E b \in get_bracket_orders(store) :
           /\ is_complete(b)
           /\ b.main_order.order_id = p
           /\ b.profit_target.order_id = p + 1
           /\ b.stop_loss.order_id = p + 2

\* C24: when main order and profit target have filled without any cancel
\* call and the store has seen both fills, the status reported last for the
\* bracket is 'Bracket Closed' and the stop leg is terminal in the store.
BracketEndsClosed ==
    LET p == bracket.parent_id
    IN /\ bracket.pc = "placed"
       /\ bracket.cancels = 0
       /\ trades[p].status = "Filled" /\ trades[p + 1].status = "Filled"
       /\ {p, p + 1, p + 2} \subseteq DOMAIN store
       /\ store[p].status = "Filled" /\ store[p + 1].status = "Filled"
       => /\ bracket.path # <<>>
          /\ bracket.path[Len(bracket.path)] = "Bracket Closed"
          /\ store[p + 2].status \in Terminal

---------------------------------------------------------------------------
\* Properties of cancel, the caches and the request counters

\* C25: cancel_order on an order that is Filled, Cancelled or Inactive at
\* the gateway, or that the gateway does not know, fails, sends no cancel
\* and leaves the gateway's orders, the stored rows and the cache as they
\* were.
CancelOfTerminalFails ==
    [][last'.op = "cancel_order" /\ (last'.order_id \notin DOMAIN trades \/ trades[last'.order_id].status \in {"Filled", "Cancelled", "Inactive"}) => ~last'.success /\ trades' = trades /\ store' = store /\ cache' = cache]_vars

Younger(timestamp, t, ttl) == timestamp # None /\ t - timestamp < ttl

\* C26: a cache read gives a snapshot only when it was captured less than
\* 30 seconds (pending orders) or 60 seconds (brackets) before the read;
\* otherwise it gives the empty result, and the route then answers from a
\* live query (pending orders) or from the store (brackets).
CacheReadsWithinTTL ==
    [][/\ (get_cached_pending_orders(cache, now) # <<>> => Younger(cache.timestamp, now, 30))
       /\ (get_cached_bracket_orders(bcache, now) # {} => Younger(bcache.timestamp, now, 60))
       /\ (last'.op = "get_pending_orders" =>
             /\ (last'.source = "cache" => Younger(cache.timestamp, now, 30))
             /\ (~Younger(cache.timestamp, now, 30) => last'.source \in {"live_ibkr", "error"}))
       /\ (last'.op = "get_bracket_orders" =>
             /\ (last'.source = "cache" => Younger(bcache.timestamp, now, 60))
             /\ (~Younger(bcache.timestamp, now, 60) => last'.source = "database" /\ last'.brackets = get_bracket_orders(store)))]_vars

\* a bracket entry exactly 60 seconds old was passed over for the store,
\* while the pending-orders entry had run out as well
ExpiredEntryWitness ==
    /\ last.op = "get_bracket_orders"
    /\ last.source = "database"
    /\ last.age = BRACKET_ORDERS_TTL
    /\ last.brackets # {}
    /\ cache # NoCache
    /\ now - cache.timestamp >= PENDING_ORDERS_TTL

\* C27: once a cancel or a modify has succeeded, a read of the cached
\* pending orders and a read of the cached brackets both miss.
CancelOrModifyInvalidates ==
    last.op \in {"cancel_order", "modify_order"} /\ last.success =>
        get_cached_pending_orders(cache, now) = <<>> /\ get_cached_bracket_orders(bcache, now) = {}

\* C29: when a store write of a reconciliation fails, the exception leaves
\* the operation.
StoreWriteFailureReachesCaller ==
    last.op \in {"get_pending_orders", "sync_order_statuses"} /\ "write_failed" \in DOMAIN last => last.raised

\* C28: every call of a Broker operation on a connected broker adds one to
\* total_request_count, and one to failed_request_count exactly when the
\* call failed.
RequestsCountedOnce ==
    [][last'.op = "broker_call" /\ last'.connected =>
         /\ health'.total_request_count = health.total_request_count + 1
         /\ health'.failed_request_count = health.failed_request_count + (IF last'.failed THEN 1 ELSE 0)]_vars

AllPassesDone == \A p \in Passes : passes.pass[p].pc = "done"

\* the rows one pass over the snapshot leaves: the snapshot's orders as
\* they are in the snapshot, the other active rows Filled, the rest as before
OnePassEnd(before, live) ==
    LET live_ids == {live[k].order_id : k \in DOMAIN live}
        row(i) == live[CHOOSE k \in DOMAIN live : live[k].order_id = i]
    IN [i \in DOMAIN before \cup live_ids |->
          IF i \in live_ids THEN row(i)
          ELSE IF before[i].status \in SyncOpenStatuses THEN [before[i] EXCEPT !.status = "Filled"]
          ELSE before[i]]

\* C30: when two Reconcile passes over the same snapshot have run on the
\* same store with their statements interleaved in any way, the store
\* holds what a single pass over that snapshot leaves.
ConcurrentSyncEndsAsOne ==
    AllPassesDone =>
        /\ store = OnePassEnd(passes.before, passSnap)
        /\ store = sync_pending_orders(passes.before, passSnap)

\* both passes are done after interleaved statements, one row was marked
\* Filled and one was replaced
InterleavedPassesWitness ==
    /\ AllPassesDone
    /\ passes.mixed
    /\ \E i \in DOMAIN passes.before : (\A k \in DOMAIN passSnap : passSnap[k].order_id # i) /\ passes.before[i].status = "Submitted" /\ store[i].status = "Filled"
    /\ \E k \in DOMAIN passSnap : passSnap[k].order_id \in DOMAIN passes.before /\ store[passSnap[k].order_id] = passSnap[k]

---------------------------------------------------------------------------
\* Properties of the session memory

MostRecent(messages) ==
    [k \in 1..(IF Len(messages) > 10 THEN 10 ELSE Len(messages)) |-> messages[k + (IF Len(messages) > 10 THEN Len(messages) - 10 ELSE 0)]]

\* the first message of the conversation's present life: no pause of 30
\* minutes or more lies between two messages from there on
LifeStart(added) ==
    CHOOSE k \in 1..Len(added) :
      /\ \A j \in k..(Len(added) - 1) : added[j + 1].timestamp - added[j].timestamp < 30
      /\ k = 1 \/ added[k].timestamp - added[k - 1].timestamp >= 30

SinceExpiry(added, t) ==
    IF added = <<>> \/ t - added[Len(added)].timestamp >= 30 THEN <<>>
    ELSE SubSeq(added, LifeStart(added), Len(added))

\* C31: the hot-memory list of a session holds, in the order of the calls,
\* the 10 most recent of the messages added since the entry last expired
\* (30 minutes after the latest add_message), and get_context returns that
\* list.
HotMemoryHoldsRecentMessages ==
    /\ get_session_messages(sess.entry, now) = MostRecent(SinceExpiry(sess.added, now))
    /\ last.op = "get_context" => last.current_messages = MostRecent(SinceExpiry(sess.added, now))

\* twelve messages, the first lost to an expiry, the next oldest to the
\* limit of 10, and get_context has returned the ten that remain
TrimmedAfterExpiryWitness ==
    /\ Len(sess.added) = 12
    /\ LifeStart(sess.added) = 2
    /\ last.op = "get_context"
    /\ Len(last.current_messages) = 10
    /\ last.current_messages[1].message = 3

\* C31 as stated: the hot-memory list holds the 10 most recent of all the
\* messages added so far, and get_context returns it while the entry has
\* not expired.
HotMemoryHoldsAllAdded ==
    sess.entry # NoEntry /\ now < sess.entry.expires =>
        /\ sess.entry.data = MostRecent(sess.added)
        /\ last.op = "get_context" => last.current_messages = MostRecent(sess.added)

---------------------------------------------------------------------------
\* Properties of the confirmation workflow, continued

\* C32: once the stored strategy has status executed or partial, a
\* confirm_strategy call for it transmits no order.
StrategyExecutedOnce ==
    [][(strategyStatus \in {"executed", "partial"} /\ last'.op = "confirm_strategy" /\ last'.strategy_id = StrategyId) => (last'.transmitted = {} /\ trades' = trades)]_vars

\* C33: every order of a strategy that confirm_strategy has transmitted in
\* full stands at the gateway with the order type it was validated with, a
\* limit-bearing one with its limit price and a stop-bearing one with its
\* stop price.
TransmittedAsValidated ==
    [][last'.op = "confirm_strategy" /\ last'.code = 200 /\ last'.failed = 0 =>
         \A k \in DOMAIN last'.orders :
            LET v == validate_order(last'.orders[k]).order
                t == trades'[Len(trades) + k]
            IN /\ t.orderType = v.order_type
               /\ v.order_type \in {"LMT", "STP LMT"} => t.lmtPrice = v.limit_price
               /\ v.order_type \in {"STP", "STP LMT"} => t.auxPrice = v.stop_price]_vars

\* C34: confirm_strategy transmits no order when the portfolio the broker
\* reports holds max_positions open positions or more.
PositionCapGatesSubmission ==
    [][(last'.op = "confirm_strategy" /\ last'.open_positions >= max_positions) => (last'.transmitted = {} /\ trades' = trades)]_vars

---------------------------------------------------------------------------
\* Properties of the Reconcile pass, continued

\* C35: a Reconcile pass whose snapshot contains a stored order that is
\* linked to a strategy leaves that order's strategy_id as it was.
ReconcileKeepsOriginLink ==
    [][(last'.op = "get_pending_orders" /\ last'.source = "live_ibkr") =>
         \A i \in DOMAIN store :
            (store[i].strategy_id # None /\ \E k \in DOMAIN passSnap' : passSnap'[k].order_id = i)
               => store'[i].strategy_id = store[i].strategy_id]_vars

\* C36: in every state, a stored order with status Filled has
\* filled_quantity equal to its quantity and remaining_quantity 0, an order
\* a Reconcile pass marked Filled because it had left the live list included.
FilledOrdersFullyFilled ==
    \A i \in DOMAIN store :
        store[i].status = "Filled" =>
            /\ store[i].filled_quantity = store[i].quantity
            /\ store[i].remaining_quantity = 0

---------------------------------------------------------------------------
\* Properties of the gateway sessions, continued

\* C37: whenever Broker.connect has just returned True the gateway link is
\* live, is_connected() holds: after the link dropped without disconnect(),
\* connect() opens a session again before it returns True.
ConnectTrueMeansLive ==
    (brk.pc = "returned" /\ brk.op \in {"connect", "setup"} /\ brk.result)
        => (brk.connected /\ brk.link = "open")

\* C38: at most one connect/_reconnect sequence of a ConnectionManager is in
\* progress at any time: no two tasks of the manager are between the start
\* of their sequence and its return together.
OneReconnectionAtATime ==
    Cardinality({t \in Tasks : task[t].pc \in {"connecting", "sleeping"}}) <= 1

\* task t returns True in this step
ReturnsTrue(t) == task'[t] # task[t] /\ task'[t].pc = "returned" /\ task'[t].result

\* C39: whenever connect() or _reconnect() of the manager returns True,
\* reconnect_attempts is 0 and client_id is the id the live session was
\* opened with: the id of the connectAsync that just returned, or the one
\* the manager had when the session was found connected.
TrueReturnResetsBudget ==
    [][\A t \in Tasks : ReturnsTrue(t) =>
          /\ mgr'.reconnect_attempts = 0
          /\ (task[t].pc = "connecting" => mgr'.client_id = task[t].using)
          /\ (task[t].pc # "connecting" => mgr'.client_id = mgr.client_id)]_vars

---------------------------------------------------------------------------
\* Properties of the bracket cache, continued

\* the member statuses of a bracket group
MemberStatuses(b) ==
    <<b.oca_group, b.main_order.status,
      IF b.profit_target # NoOrder THEN b.profit_target.status ELSE "",
      IF b.stop_loss # NoOrder THEN b.stop_loss.status ELSE "">>

\* C40: after a Reconcile pass that changes the status of a stored bracket
\* member, the bracket cache serves no group with other member statuses
\* than the store holds: the pass has refreshed or invalidated the entry.
BracketCacheFollowsReconcile ==
    [][(/\ last'.op = "get_pending_orders"
        /\ last'.source = "live_ibkr"
        /\ \E i \in DOMAIN store : store[i].oca_group # None /\ store'[i].status # store[i].status)
       => {MemberStatuses(b) : b \in get_cached_bracket_orders(bcache', now')}
             \subseteq {MemberStatuses(b) : b \in get_bracket_orders(store')}]_vars

====
